---- MODULE Spec2Model ----
(***************************************************************************)
(* Model of the ThrustyARMA input mapper: the binding resolver             *)
(* (src/src/bindings.cpp), the axis transform it applies, and the daemon's *)
(* main loop with its device table (src/src/twcs_mapper.cpp) writing to    *)
(* the virtual device (src/src/virtual_device.cpp); the InputSource and    *)
(* EpollLoop library (src/src/input_source.hpp, src/src/epoll_loop.cpp)    *)
(* and the profile management of ConfigManager (src/src/config.cpp).       *)
(***************************************************************************)
EXTENDS Integers, Sequences, FiniteSets, TLC

VARIABLES
    cfg,            \* which configuration (binding table, inputs) this run was started with
    resolver,       \* BindingResolver: its fields as a record
    events,         \* the vector returned by the latest get_pending_events()
    trace,          \* SpecTrace: the (input, value) pairs processed so far, in order
    stream,         \* SpecTrace: the vector drained after each of them
    input_devices,  \* main(): std::vector<InputDevice>, one record per opened device
    pc,             \* main(): position in the loop body
    ready,          \* main(): the devices epoll_wait reported, not yet handled
    errno,          \* the C library's errno, as far as handle_device_error reads it
    uinput_log,     \* what the virtual device accepted: the writes of each of the
                    \* last MaxLog dispatches that wrote anything
    plugged,        \* the roles whose device node exists right now
    running,        \* main(): the flag the signal handler clears
    virtual_device, \* VirtualDevice: uinput_fd, ready, and what it declared to uinput
    uinput_ok,      \* whether uinput accepts a write() to the virtual device
    epoll_fd,       \* main(): whether the epoll descriptor is open
    exit_code,      \* what main() returned, once it has
    input_index,    \* main(): the entry of config.inputs the startup loop is at
    input_sources,  \* InputSource: fd, dev and grabbed of each source
    loop_epoll_fd,  \* EpollLoop: whether epoll_fd is open
    active_devices, \* EpollLoop: the vector of device pointers
    registered,     \* the sources whose fd is in the interest list of the epoll
    syscalls,       \* what the last InputSource call did to the system, in order;
                    \* for a VirtualDevice or ConfigManager call, the call and
                    \* what it returned
    config          \* struct Config: profiles and active_profile

resolver_vars == <<resolver, events>>
trace_vars == <<trace, stream>>
life_vars == <<virtual_device, uinput_ok, epoll_fd, exit_code, input_index>>
daemon_vars == <<input_devices, pc, ready, errno, uinput_log, plugged, running, life_vars>>
lib_vars == <<input_sources, loop_epoll_fd, active_devices, registered, syscalls, config>>
vars == <<cfg, resolver_vars, trace_vars, daemon_vars, lib_vars>>

-----------------------------------------------------------------------------
(* Bounds of the model *)

\* SpecTrace: number of inputs processed in one recorded run
MaxTrace == 4
\* SpecDaemon: number of writing dispatches whose writes are kept
MaxLog == 2
\* SpecDaemon: the clock's resolution in milliseconds; the time a loop
\* iteration takes is a whole number of ticks
TickMs == 500

-----------------------------------------------------------------------------
(* evdev codes (linux/input-event-codes.h) used by bindings.cpp *)

BTN_TRIGGER == 288
BTN_BASE5 == 298
BTN_BASE6 == 299
BTN_SOUTH == 304
BTN_EAST == 305
BTN_NORTH == 307
BTN_WEST == 308
BTN_TL == 310
BTN_TR == 311
BTN_TL2 == 312
BTN_TR2 == 313
BTN_SELECT == 314
BTN_START == 315
BTN_MODE == 316
BTN_THUMBL == 317
BTN_THUMBR == 318
BTN_DPAD_UP == 544
BTN_DPAD_DOWN == 545
BTN_DPAD_LEFT == 546
BTN_DPAD_RIGHT == 547
ABS_X == 0
ABS_Y == 1
ABS_Z == 2
ABS_RX == 3
ABS_RY == 4
ABS_RZ == 5
ABS_THROTTLE == 6
ABS_HAT0X == 16
ABS_HAT0Y == 17

\* enum class Role / enum class SrcKind, in declaration order
Roles == {"Stick", "Throttle", "Rudder"}
RoleRank(r) == CASE r = "Stick" -> 0 [] r = "Throttle" -> 1 [] r = "Rudder" -> 2
KindRank(k) == IF k = "Key" THEN 0 ELSE 1

\* std::optional<int>: std::nullopt, or a value
NoValue == <<>>
Some(v) == <<v>>

PhysicalInput(role, kind, code) == [role |-> role, kind |-> kind, code |-> code]
VirtualSlot(kind, code) == [kind |-> kind, code |-> code]
AxisTransform(invert, min_out, max_out) ==
    [invert |-> invert, min_out |-> min_out, max_out |-> max_out]
Binding(src, dst, xform) == [src |-> src, dst |-> dst, xform |-> xform]
AxisCalibration(observed_min, observed_max, center_value, deadzone_radius) ==
    [observed_min |-> observed_min, observed_max |-> observed_max,
     center_value |-> center_value, deadzone_radius |-> deadzone_radius]

\* VirtualSlot::operator<
SlotLess(a, b) ==
    IF a.kind # b.kind THEN KindRank(a.kind) < KindRank(b.kind) ELSE a.code < b.code

-----------------------------------------------------------------------------
(* std::map helpers *)

EmptyMap == [x \in {} |-> 0]
MapPut(f, k, v) == [x \in (DOMAIN f) \cup {k} |-> IF x = k THEN v ELSE f[x]]
MapGet(f, k, default) == IF k \in DOMAIN f THEN f[k] ELSE default

\* the keys of a std::map<VirtualSlot, ...> in iteration order
RECURSIVE SlotsInOrder(_)
SlotsInOrder(S) ==
    IF S = {} THEN <<>>
    ELSE LET m == CHOOSE x \in S : \A y \in S : x = y \/ SlotLess(x, y)
         IN <<m>> \o SlotsInOrder(S \ {m})

Max(a, b) == IF a > b THEN a ELSE b
Min(a, b) == IF a < b THEN a ELSE b
Abs(n) == IF n < 0 THEN -n ELSE n
Sign(n) == IF n < 0 THEN -1 ELSE IF n = 0 THEN 0 ELSE 1

-----------------------------------------------------------------------------
(* IEEE-754 binary32 arithmetic, round-to-nearest-even, as the `float`       *)
(* expressions of apply_axis_transform are evaluated.  A value is           *)
(* s * m * 2^e with s in {-1,0,1} and 2^23 <= m < 2^24 (m = 0 for zero).    *)

RECURSIVE Pow2(_)
Pow2(n) == IF n = 0 THEN 1 ELSE 2 * Pow2(n - 1)

RECURSIVE BitLen(_)
BitLen(n) == IF n = 0 THEN 0 ELSE 1 + BitLen(n \div 2)

F32Zero == [s |-> 0, m |-> 0, e |-> 0]

\* s * (n + frac) * 2^e rounded to 24 significant bits; sticky says 0 < frac < 1
F32Round(s, n, e, sticky) ==
    IF n = 0 THEN F32Zero
    ELSE LET len == BitLen(n) IN
         IF len <= 24
         THEN [s |-> s, m |-> n * Pow2(24 - len), e |-> e - (24 - len)]
         ELSE LET k    == len - 24
                  q    == n \div Pow2(k)
                  rem  == n % Pow2(k)
                  half == Pow2(k - 1)
                  up   == rem > half \/ (rem = half /\ (sticky \/ q % 2 = 1))
                  q1   == IF up THEN q + 1 ELSE q
              IN IF q1 = Pow2(24)
                 THEN [s |-> s, m |-> Pow2(23), e |-> e + k + 1]
                 ELSE [s |-> s, m |-> q1, e |-> e + k]

\* int -> float
F32FromInt(n) == F32Round(Sign(n), Abs(n), 0, FALSE)

F32Neg(a) == [a EXCEPT !.s = -a.s]

\* k steps of binary long division of (q, r) by d
RECURSIVE DivBits(_, _, _, _)
DivBits(q, r, d, k) ==
    IF k = 0 THEN <<q, r>>
    ELSE IF 2 * r >= d THEN DivBits(2 * q + 1, 2 * r - d, d, k - 1)
                       ELSE DivBits(2 * q, 2 * r, d, k - 1)

\* a / b for b # 0
F32Div(a, b) ==
    IF a.s = 0 THEN F32Zero
    ELSE LET qr == DivBits(a.m \div b.m, a.m % b.m, b.m, 26)
         IN F32Round(a.s * b.s, qr[1], a.e - b.e - 26, qr[2] # 0)

\* a * b, the 48-bit product formed from 12-bit limbs
F32Mul(a, b) ==
    IF a.s = 0 \/ b.s = 0 THEN F32Zero
    ELSE LET a1  == a.m \div 4096
             a0  == a.m % 4096
             b1  == b.m \div 4096
             b0  == b.m % 4096
             mid == a1 * b0 + a0 * b1
             lof == a0 * b0 + (mid % 4096) * 4096
             lo  == lof % Pow2(24)
             hi  == a1 * b1 + mid \div 4096 + lof \div Pow2(24)
         IN F32Round(a.s * b.s, hi * 8 + lo \div Pow2(21), a.e + b.e + 21,
                     lo % Pow2(21) # 0)

\* x + y for nonzero x, y with x.e >= y.e (three guard bits and a sticky bit)
F32AddOrdered(x, y) ==
    LET d  == x.e - y.e
        A  == x.m * 8
        B  == IF d <= 3 THEN y.m * Pow2(3 - d)
              ELSE IF d - 3 >= 25 THEN 0 ELSE y.m \div Pow2(d - 3)
        st == IF d <= 3 THEN FALSE
              ELSE IF d - 3 >= 25 THEN TRUE ELSE y.m % Pow2(d - 3) # 0
    IN IF x.s = y.s THEN F32Round(x.s, A + B, x.e - 3, st)
       ELSE IF A = B THEN F32Zero
       ELSE IF A > B
            THEN F32Round(x.s, IF st THEN A - B - 1 ELSE A - B, x.e - 3, st)
            ELSE F32Round(y.s, B - A, x.e - 3, FALSE)

F32Add(a, b) ==
    IF a.s = 0 THEN b
    ELSE IF b.s = 0 THEN a
    ELSE IF a.e >= b.e THEN F32AddOrdered(a, b) ELSE F32AddOrdered(b, a)

F32Sub(a, b) == F32Add(a, F32Neg(b))

\* static_cast<int>(float): truncation toward zero
F32ToInt(a) ==
    IF a.s = 0 THEN 0
    ELSE IF a.e >= 0 THEN a.s * a.m * Pow2(a.e)
    ELSE IF -a.e >= 24 THEN 0
    ELSE a.s * (a.m \div Pow2(-a.e))

\* variant: the scaled ratio alone, without the offset of the output range
ScaleRatio_NoOffset(num, den, scale, offset) ==
    F32ToInt(F32Mul(F32Div(F32FromInt(num), F32FromInt(den)), F32FromInt(scale)))

\* static_cast<int>(num / (float)den * scale + offset)
ScaleRatio(num, den, scale, offset) ==
    F32ToInt(F32Add(F32Mul(F32Div(F32FromInt(num), F32FromInt(den)),
                           F32FromInt(scale)),
                    F32FromInt(offset)))

-----------------------------------------------------------------------------
(* BindingResolver (bindings.cpp) *)

\* variant: every destination is taken for a slot of the contract
AnySlot_Valid(slot) == TRUE

\* is_virtual_slot_valid: the virtual controller contract
valid_buttons ==
    {BTN_SOUTH, BTN_EAST, BTN_WEST, BTN_NORTH, BTN_TL, BTN_TR, BTN_TL2, BTN_TR2,
     BTN_SELECT, BTN_START, BTN_MODE, BTN_THUMBL, BTN_THUMBR,
     BTN_DPAD_UP, BTN_DPAD_DOWN, BTN_DPAD_LEFT, BTN_DPAD_RIGHT}
valid_axes == {ABS_X, ABS_Y, ABS_RX, ABS_RY, ABS_Z, ABS_RZ, ABS_HAT0X, ABS_HAT0Y}
is_virtual_slot_valid(slot) ==
    IF slot.kind = "Key" THEN slot.code \in valid_buttons ELSE slot.code \in valid_axes

\* validate_bindings: its own copies of the two lists; false as soon as one
\* destination is in neither
validate_bindings(bindings) ==
    \A i \in 1..Len(bindings) :
        IF bindings[i].dst.kind = "Key"
        THEN bindings[i].dst.code \in
                 {BTN_SOUTH, BTN_EAST, BTN_WEST, BTN_NORTH, BTN_TL, BTN_TR, BTN_TL2,
                  BTN_TR2, BTN_SELECT, BTN_START, BTN_MODE, BTN_THUMBL, BTN_THUMBR,
                  BTN_DPAD_UP, BTN_DPAD_DOWN, BTN_DPAD_LEFT, BTN_DPAD_RIGHT}
        ELSE bindings[i].dst.code \in
                 {ABS_X, ABS_Y, ABS_RX, ABS_RY, ABS_Z, ABS_RZ, ABS_HAT0X, ABS_HAT0Y}

\* main(): each configured binding is validated on its own and kept only if
\* it passes
valid_config_bindings(config_bindings) ==
    SelectSeq(config_bindings, LAMBDA binding : validate_bindings(<<binding>>))

\* variant: the value leaves the transform as computed
ClampOut_None(xform, output_value) == output_value

\* std::max(min_out, std::min(max_out, output_value))
ClampOut(xform, output_value) == Max(xform.min_out, Min(xform.max_out, output_value))

\* bool is_centered: which of the two mappings a calibrated axis gets
is_centered(role, cal) ==
    /\ role \in {"Stick", "Rudder"}
    /\ cal.center_value > cal.observed_min + 10
    /\ cal.deadzone_radius > 0

\* the calibrated branch: two-segment mapping for a centered axis, one segment
\* otherwise, then inversion and the clamp.  (Applied where the divisor is not
\* zero; see TransformDefined and UndefinedTransform for the other case.)
CalibratedTransform(input_value, xform, role, cal) ==
    LET output_value ==
            IF is_centered(role, cal)
            THEN IF Abs(input_value - cal.center_value) < cal.deadzone_radius THEN 0
                 ELSE IF input_value < cal.center_value
                 THEN LET deadzone_edge == cal.center_value - cal.deadzone_radius
                      IN ScaleRatio(input_value - cal.observed_min,
                                    deadzone_edge - cal.observed_min,
                                    0 - xform.min_out, xform.min_out)
                 ELSE LET deadzone_edge == cal.center_value + cal.deadzone_radius
                      IN ScaleRatio(input_value - deadzone_edge,
                                    cal.observed_max - deadzone_edge,
                                    xform.max_out, 0)
            ELSE ScaleRatio(input_value - cal.observed_min,
                            cal.observed_max - cal.observed_min,
                            xform.max_out - xform.min_out, xform.min_out)
        inverted == IF xform.invert
                    THEN xform.max_out + xform.min_out - output_value
                    ELSE output_value
    IN ClampOut(xform, inverted)

\* the fallback without calibration: the raw value taken as a part of 65535
UncalibratedTransform(value, xform) ==
    LET ratio0 == F32Div(F32FromInt(value), F32FromInt(65535))
        ratio  == IF xform.invert THEN F32Sub(F32FromInt(1), ratio0) ELSE ratio0
        output_value ==
            F32ToInt(F32Add(F32Mul(ratio, F32FromInt(xform.max_out - xform.min_out)),
                            F32FromInt(xform.min_out)))
    IN ClampOut(xform, output_value)

apply_axis_transform(calibrations, value, xform, role, src_code) ==
    IF role \in DOMAIN calibrations /\ src_code \in DOMAIN calibrations[role]
    THEN CalibratedTransform(value, xform, role, calibrations[role][src_code])
    ELSE UncalibratedTransform(value, xform)

\* variant: installing a calibration forgets what the role has reported
set_calibration_Forgets(r, role, src_code, cal) ==
    [r EXCEPT !.calibrations =
                  MapPut(@, role, MapPut(MapGet(@, role, EmptyMap), src_code, cal)),
              !.axis_values =
                  [slot \in DOMAIN @ |-> [@[slot] EXCEPT ![role] = NoValue]]]

\* set_calibration: calibrations[role][src_code] = cal
set_calibration(r, role, src_code, cal) ==
    [r EXCEPT !.calibrations =
         MapPut(@, role, MapPut(MapGet(@, role, EmptyMap), src_code, cal))]

\* BindingResolver::BindingResolver
RECURSIVE construct_slots(_, _, _)
construct_slots(bs, i, r) ==
    IF i > Len(bs) THEN r
    ELSE LET dst == bs[i].dst IN
         IF ~is_virtual_slot_valid(dst) THEN construct_slots(bs, i + 1, r)
         ELSE IF dst.kind = "Key"
         THEN construct_slots(bs, i + 1,
                  [r EXCEPT !.button_refcounts = MapPut(@, dst, 0)])
         ELSE construct_slots(bs, i + 1,
                  [r EXCEPT !.axis_values = MapPut(@, dst, [role \in Roles |-> NoValue]),
                            !.last_output_values = MapPut(@, dst, 0)])

NewResolver(bs, cals) ==
    construct_slots(bs, 1,
        [bindings |-> bs, calibrations |-> cals,
         button_refcounts |-> EmptyMap, button_pressed_sources |-> EmptyMap,
         axis_values |-> EmptyMap, last_output_values |-> EmptyMap])

\* variant: only the value 1 is a press
ButtonPressed_OnlyOne(value) == value = 1

\* (value != 0): any non-zero value, autorepeat included, is a press
ButtonPressed(value) == value # 0

\* variant: a virtual button counts as pressed only while all its sources are
Refcount_AllPressed(sources) ==
    IF \A s \in DOMAIN sources : sources[s] THEN Cardinality(DOMAIN sources) ELSE 0

\* the count of pressed sources of one virtual button
Refcount(sources) == Cardinality({s \in DOMAIN sources : sources[s]})

\* BindingResolver::process_input
RECURSIVE process_bindings(_, _, _, _)
process_bindings(r, i, input, value) ==
    IF i > Len(r.bindings) THEN r
    ELSE LET binding == r.bindings[i] IN
         IF ~(binding.src.role = input.role /\ binding.src.kind = input.kind
              /\ binding.src.code = input.code)
         THEN process_bindings(r, i + 1, input, value)
         ELSE IF binding.dst.kind = "Key"
         THEN LET sources == MapPut(MapGet(r.button_pressed_sources, binding.dst, EmptyMap),
                                    binding.src, ButtonPressed(value))
              IN process_bindings(
                     [r EXCEPT !.button_pressed_sources = MapPut(@, binding.dst, sources),
                               !.button_refcounts = MapPut(@, binding.dst, Refcount(sources))],
                     i + 1, input, value)
         ELSE LET transformed_value ==
                      apply_axis_transform(r.calibrations, value, binding.xform,
                                           input.role, input.code)
                  role_values == MapPut(MapGet(r.axis_values, binding.dst, EmptyMap),
                                        input.role, Some(transformed_value))
              IN process_bindings(
                     [r EXCEPT !.axis_values = MapPut(@, binding.dst, role_values)],
                     i + 1, input, value)

process_input(r, input, value) == process_bindings(r, 1, input, value)

\* variant: the trigger clicks are emitted like any other button
Suppress_Nothing(slot) == FALSE

\* should_suppress_button_output
should_suppress_button_output(slot) ==
    slot.kind = "Key" /\ (slot.code = BTN_TL2 \/ slot.code = BTN_TR2)

\* (refcount > 0) ? 1 : 0
ButtonCurrentValue(refcount) == IF refcount > 0 THEN 1 ELSE 0

\* variant: the emitted value is not remembered
RecordOutput_Stale(last_output_values, slot, current_value) == last_output_values

\* last_output_values[slot] = current_value
RecordOutput(last_output_values, slot, current_value) ==
    MapPut(last_output_values, slot, current_value)

\* the loop over button_refcounts; acc = [events, emitted_slots, last_output_values]
RECURSIVE drain_buttons(_, _, _)
drain_buttons(r, slots, acc) ==
    IF slots = <<>> THEN acc
    ELSE LET slot == Head(slots)
             last_value == MapGet(acc.last_output_values, slot, 0)
             current_value == ButtonCurrentValue(r.button_refcounts[slot])
         IN IF ~is_virtual_slot_valid(slot) THEN drain_buttons(r, Tail(slots), acc)
            ELSE IF slot \in acc.emitted_slots THEN drain_buttons(r, Tail(slots), acc)
            ELSE IF last_value = current_value THEN drain_buttons(r, Tail(slots), acc)
            ELSE IF should_suppress_button_output(slot)
            THEN drain_buttons(r, Tail(slots),
                     [acc EXCEPT !.last_output_values = RecordOutput(@, slot, current_value)])
            ELSE drain_buttons(r, Tail(slots),
                     [events |-> Append(acc.events, <<slot, current_value>>),
                      emitted_slots |-> acc.emitted_slots \cup {slot},
                      last_output_values |->
                          RecordOutput(acc.last_output_values, slot, current_value)])

get_button_pressed(r, btn_code) ==
    LET btn_slot == VirtualSlot("Key", btn_code)
    IN IF btn_slot \in DOMAIN r.button_refcounts
       THEN r.button_refcounts[btn_slot] > 0 ELSE FALSE

\* axis_values[axis_slot][Role::Rudder] = value, for a slot of the contract
write_mirrored(axis_values, axis_code, value) ==
    LET axis_slot == VirtualSlot("Abs", axis_code)
    IN IF ~is_virtual_slot_valid(axis_slot) THEN axis_values
       ELSE MapPut(axis_values, axis_slot,
                   MapPut(MapGet(axis_values, axis_slot, EmptyMap), "Rudder", Some(value)))

\* int hat = 0; if (negative pressed) hat = -1; if (positive pressed) hat = 1;
HatValue(r, negative_btn, positive_btn) ==
    IF get_button_pressed(r, positive_btn) THEN 1
    ELSE IF get_button_pressed(r, negative_btn) THEN -1 ELSE 0

mirror_button_to_axis(r, axis_values, btn_code, axis_code, pressed_value, released_value) ==
    write_mirrored(axis_values, axis_code,
                   IF get_button_pressed(r, btn_code) THEN pressed_value ELSE released_value)

\* the button-to-axis mirroring of get_pending_events
mirror_buttons(r) ==
    LET a1 == write_mirrored(r.axis_values, ABS_HAT0X,
                             HatValue(r, BTN_DPAD_LEFT, BTN_DPAD_RIGHT))
        a2 == write_mirrored(a1, ABS_HAT0Y, HatValue(r, BTN_DPAD_UP, BTN_DPAD_DOWN))
        a3 == mirror_button_to_axis(r, a2, BTN_TL2, ABS_Z, 255, 0)
    IN mirror_button_to_axis(r, a3, BTN_TR2, ABS_RZ, 255, 0)

HasValue(role_values, role) == role \in DOMAIN role_values /\ role_values[role] # NoValue

\* variant: Throttle is consulted before Stick
SelectAxisValue_ThrottleFirst(role_values) ==
    IF HasValue(role_values, "Throttle") THEN role_values["Throttle"][1]
    ELSE IF HasValue(role_values, "Stick") THEN role_values["Stick"][1]
    ELSE IF HasValue(role_values, "Rudder") THEN role_values["Rudder"][1]
    ELSE 0

\* Priority: Stick > Throttle > Rudder; 0 when no role has a value
SelectAxisValue(role_values) ==
    IF HasValue(role_values, "Stick") THEN role_values["Stick"][1]
    ELSE IF HasValue(role_values, "Throttle") THEN role_values["Throttle"][1]
    ELSE IF HasValue(role_values, "Rudder") THEN role_values["Rudder"][1]
    ELSE 0

\* the loop over axis_values
RECURSIVE drain_axes(_, _, _)
drain_axes(axis_values, slots, acc) ==
    IF slots = <<>> THEN acc
    ELSE LET slot == Head(slots)
             current_value == SelectAxisValue(axis_values[slot])
             last_value == MapGet(acc.last_output_values, slot, 0)
         IN IF ~is_virtual_slot_valid(slot) THEN drain_axes(axis_values, Tail(slots), acc)
            ELSE IF slot \in acc.emitted_slots THEN drain_axes(axis_values, Tail(slots), acc)
            ELSE IF last_value # current_value
            THEN drain_axes(axis_values, Tail(slots),
                     [events |-> Append(acc.events, <<slot, current_value>>),
                      emitted_slots |-> acc.emitted_slots \cup {slot},
                      last_output_values |->
                          RecordOutput(acc.last_output_values, slot, current_value)])
            ELSE drain_axes(axis_values, Tail(slots), acc)

\* variant: the bound axes and the mirrored axes are drained in two passes,
\* each with its own record of the slots emitted
get_pending_events_TwoPasses(r) ==
    LET acc0 == [events |-> <<>>, emitted_slots |-> {},
                 last_output_values |-> r.last_output_values]
        acc1 == drain_buttons(r, SlotsInOrder(DOMAIN r.button_refcounts), acc0)
        acc2 == drain_axes(r.axis_values, SlotsInOrder(DOMAIN r.axis_values), acc1)
        mirrored == mirror_buttons(r)
        acc3 == drain_axes(mirrored, SlotsInOrder(DOMAIN mirrored),
                           [events |-> acc2.events, emitted_slots |-> {},
                            last_output_values |-> acc1.last_output_values])
    IN [resolver |-> [r EXCEPT !.axis_values = mirrored,
                               !.last_output_values = acc3.last_output_values],
        events |-> acc3.events]

\* BindingResolver::get_pending_events: [resolver |-> the state after, events |-> the result]
get_pending_events(r) ==
    LET acc0 == [events |-> <<>>, emitted_slots |-> {},
                 last_output_values |-> r.last_output_values]
        acc1 == drain_buttons(r, SlotsInOrder(DOMAIN r.button_refcounts), acc0)
        mirrored == mirror_buttons(r)
        acc2 == drain_axes(mirrored, SlotsInOrder(DOMAIN mirrored), acc1)
    IN [resolver |-> [r EXCEPT !.axis_values = mirrored,
                               !.last_output_values = acc2.last_output_values],
        events |-> acc2.events]

-----------------------------------------------------------------------------
(* Configurations: binding tables, calibrations and the inputs the devices send *)

\* AxisTransform{}: the value-initialised transform of a key binding
KeyXform == AxisTransform(FALSE, 0, 0)

KeyBinding(role, src_code, dst_code) ==
    Binding(PhysicalInput(role, "Key", src_code), VirtualSlot("Key", dst_code), KeyXform)
AbsBinding(role, src_code, dst_code, min_out, max_out) ==
    Binding(PhysicalInput(role, "Abs", src_code), VirtualSlot("Abs", dst_code),
            AxisTransform(FALSE, min_out, max_out))

ResolverConfigs == {"fanin", "axis", "dpad", "default", "trigger"}

BindingsOf(c) ==
    CASE c = "fanin" ->
           <<KeyBinding("Stick", BTN_TRIGGER, BTN_SOUTH),
             KeyBinding("Throttle", BTN_TRIGGER, BTN_SOUTH),
             KeyBinding("Stick", BTN_BASE5, BTN_TL2)>>
      [] c = "axis" ->
           <<AbsBinding("Stick", ABS_X, ABS_X, 0, 65535),
             AbsBinding("Throttle", ABS_X, ABS_X, 0, 65535),
             AbsBinding("Rudder", ABS_X, ABS_X, -32768, 32767)>>
      [] c = "dpad" ->
           <<KeyBinding("Stick", BTN_DPAD_LEFT, BTN_DPAD_LEFT),
             KeyBinding("Stick", BTN_DPAD_RIGHT, BTN_DPAD_RIGHT),
             KeyBinding("Stick", BTN_DPAD_UP, BTN_DPAD_UP),
             KeyBinding("Stick", BTN_DPAD_DOWN, BTN_DPAD_DOWN)>>
      [] c = "default" ->   \* taken from make_default_bindings
           <<AbsBinding("Stick", ABS_HAT0X, ABS_HAT0X, -1, 1),
             AbsBinding("Throttle", ABS_Z, ABS_Z, 0, 255),
             AbsBinding("Rudder", ABS_RZ, ABS_RZ, 0, 255),
             KeyBinding("Stick", BTN_BASE5, BTN_TL2),
             KeyBinding("Stick", BTN_BASE6, BTN_TR2)>>
      [] c = "trigger" ->
           <<KeyBinding("Stick", BTN_BASE5, BTN_TL2),
             KeyBinding("Throttle", BTN_BASE5, BTN_TL2),
             KeyBinding("Stick", BTN_BASE6, BTN_TR2),
             AbsBinding("Throttle", ABS_Z, ABS_Z, 0, 255)>>
      [] c = "illegal" ->   \* destinations outside the contract among legal ones
           <<KeyBinding("Stick", BTN_TRIGGER, BTN_TRIGGER),
             KeyBinding("Stick", BTN_TRIGGER, BTN_SOUTH),
             AbsBinding("Throttle", ABS_THROTTLE, ABS_THROTTLE, 0, 255),
             AbsBinding("Throttle", ABS_THROTTLE, ABS_Z, 0, 255),
             KeyBinding("Stick", BTN_BASE5, BTN_BASE5),
             KeyBinding("Stick", BTN_BASE5, BTN_TL2)>>
      [] c \in {"daemon", "optional", "late", "both", "trio", "grab"} ->
           <<KeyBinding("Stick", BTN_TRIGGER, BTN_SOUTH),
             KeyBinding("Rudder", BTN_TRIGGER, BTN_SOUTH)>>

\* role -> (axis code -> calibration), as set_calibration fills it at startup
CalibrationsOf(c) ==
    IF c = "axis"
    THEN MapPut(EmptyMap, "Rudder",
                MapPut(EmptyMap, ABS_X, AxisCalibration(0, 1023, 600, 5)))
    ELSE EmptyMap

In(role, kind, code, value) == <<PhysicalInput(role, kind, code), value>>

\* the (input, value) pairs the devices may report
InputsOf(c) ==
    CASE c = "fanin" ->
           {In("Stick", "Key", BTN_TRIGGER, v) : v \in {0, 1, 2}}
           \cup {In("Throttle", "Key", BTN_TRIGGER, v) : v \in {0, 1}}
           \cup {In("Stick", "Key", BTN_BASE5, v) : v \in {0, 1}}
      [] c = "axis" ->
           {In("Throttle", "Abs", ABS_X, v) : v \in {100, 50}}
           \cup {In("Stick", "Abs", ABS_X, v) : v \in {200, 0}}
           \cup {In("Rudder", "Abs", ABS_X, 300)}
      [] c = "dpad" ->
           {In("Stick", "Key", BTN_DPAD_LEFT, v) : v \in {0, 1}}
           \cup {In("Stick", "Key", BTN_DPAD_RIGHT, v) : v \in {0, 1}}
           \cup {In("Stick", "Key", BTN_DPAD_UP, v) : v \in {0, 1}}
           \cup {In("Stick", "Key", BTN_DPAD_DOWN, 1)}
      [] c = "default" ->
           {In("Stick", "Abs", ABS_HAT0X, v) : v \in {-1, 1}}
           \cup {In("Throttle", "Abs", ABS_Z, 65535)}
           \cup {In("Rudder", "Abs", ABS_RZ, v) : v \in {65535, 32768}}
           \cup {In("Stick", "Key", BTN_BASE5, v) : v \in {0, 1}}
           \cup {In("Stick", "Key", BTN_BASE6, 1)}
      [] c = "trigger" ->
           {In(r, "Key", BTN_BASE5, v) : r \in {"Stick", "Throttle"}, v \in {0, 1}}
           \cup {In("Stick", "Key", BTN_BASE6, v) : v \in {0, 1}}
           \cup {In("Throttle", "Abs", ABS_Z, 32768)}
      [] c = "illegal" ->
           {In("Stick", "Key", BTN_TRIGGER, v) : v \in {0, 1}}
           \cup {In("Throttle", "Abs", ABS_THROTTLE, v) : v \in {0, 32768, 65535}}
           \cup {In("Stick", "Key", BTN_BASE5, v) : v \in {0, 1}}
      [] c \in {"daemon", "optional", "grab"} ->
           {In(r, "Key", BTN_TRIGGER, v) : r \in {"Stick", "Rudder"}, v \in {0, 1}}

-----------------------------------------------------------------------------
(* VirtualDevice (src/src/virtual_device.cpp) *)

\* enable_buttons and enable_axes: what is declared to uinput
virtual_buttons ==
    {BTN_SOUTH, BTN_EAST, BTN_WEST, BTN_NORTH, BTN_TL, BTN_TR, BTN_TL2, BTN_TR2,
     BTN_SELECT, BTN_START, BTN_MODE, BTN_THUMBL, BTN_THUMBR,
     BTN_DPAD_UP, BTN_DPAD_DOWN, BTN_DPAD_LEFT, BTN_DPAD_RIGHT}
virtual_axes == {ABS_X, ABS_Y, ABS_RX, ABS_RY, ABS_Z, ABS_RZ, ABS_HAT0X, ABS_HAT0Y}

\* create_device: uidev.absmin and uidev.absmax
AbsRange(axis) ==
    IF axis \in {ABS_Z, ABS_RZ} THEN <<0, 255>>
    ELSE IF axis \in {ABS_HAT0X, ABS_HAT0Y} THEN <<-1, 1>>
    ELSE <<-32768, 32767>>

\* the constructor: no descriptor, not ready, nothing declared
NewVirtualDevice ==
    [uinput_fd |-> FALSE, ready |-> FALSE, buttons |-> {}, absinfo |-> EmptyMap]

\* variant: ready is cleared and the descriptor is left open
cleanup_LeavesOpen(vd) == [vd EXCEPT !.ready = FALSE]

\* cleanup(): UI_DEV_DESTROY if ready, close the descriptor; with the
\* descriptor the kernel drops what was declared on it
cleanup(vd) == NewVirtualDevice

\* the calls of initialize() that can fail
InitializeSteps ==
    {"setup_uinput", "enable_event_types", "enable_buttons", "enable_axes",
     "create_device"}

\* initialize(): `failed` is the call that fails, "none" if none does
initialize(vd, failed) ==
    IF vd.ready THEN vd
    ELSE IF failed = "setup_uinput" THEN vd
    ELSE IF failed \in InitializeSteps THEN cleanup([vd EXCEPT !.uinput_fd = TRUE])
    ELSE [uinput_fd |-> TRUE, ready |-> TRUE, buttons |-> virtual_buttons,
          absinfo |-> [axis \in virtual_axes |-> AbsRange(axis)]]

-----------------------------------------------------------------------------
(* Spec: the resolver under any interleaving of process_input and           *)
(* get_pending_events calls                                                  *)

\* no InputSource and no EpollLoop has been constructed
LibIdle ==
    /\ input_sources = EmptyMap
    /\ loop_epoll_fd = FALSE
    /\ active_devices = <<>>
    /\ registered = {}
    /\ syscalls = <<>>
    /\ config = [profiles |-> EmptyMap, active_profile |-> "default"]

DaemonIdle ==
    /\ LibIdle
    /\ input_devices = <<>>
    /\ pc = "none"
    /\ ready = <<>>
    /\ errno = "OTHER"
    /\ uinput_log = <<>>
    /\ plugged = {}
    /\ running = TRUE
    /\ virtual_device = NewVirtualDevice
    /\ uinput_ok = TRUE
    /\ epoll_fd = FALSE
    /\ exit_code = NoValue
    /\ input_index = 1

Init ==
    /\ cfg \in ResolverConfigs
    /\ resolver = NewResolver(BindingsOf(cfg), CalibrationsOf(cfg))
    /\ events = <<>>
    /\ trace = <<>>
    /\ stream = <<>>
    /\ DaemonIdle

ProcessInput ==
    /\ \E iv \in InputsOf(cfg) : resolver' = process_input(resolver, iv[1], iv[2])
    /\ UNCHANGED <<cfg, lib_vars, events, trace_vars, daemon_vars>>

GetPendingEvents ==
    /\ LET got == get_pending_events(resolver)
       IN /\ resolver' = got.resolver
          /\ events' = got.events
    /\ UNCHANGED <<cfg, lib_vars, trace_vars, daemon_vars>>

Next == ProcessInput \/ GetPendingEvents

Spec == Init /\ [][Next]_vars

-----------------------------------------------------------------------------
(* SpecTrace: the resolver driven as main() drives it, one process_input and *)
(* one get_pending_events per input event, with the run recorded             *)

TraceStep ==
    /\ Len(trace) < MaxTrace
    /\ \E iv \in InputsOf(cfg) :
       \E got \in {get_pending_events(process_input(resolver, iv[1], iv[2]))} :
             /\ resolver' = got.resolver
             /\ events' = got.events
             /\ trace' = Append(trace, iv)
             /\ stream' = Append(stream, got.events)
    /\ UNCHANGED <<cfg, lib_vars, daemon_vars>>

NextTrace == TraceStep

SpecTrace == Init /\ [][NextTrace]_vars

-----------------------------------------------------------------------------
(* SpecRepeat: the resolver brought to any state it can reach, then given    *)
(* the same input twice, each time followed by a drain                       *)

\* any sequence of process_input and get_pending_events calls before the pair
Prepare ==
    /\ trace = <<>>
    /\ Next

\* process_input(x); get_pending_events(); process_input(x); get_pending_events()
RepeatStep ==
    /\ trace = <<>>
    /\ \E iv \in InputsOf(cfg) :
       \E first \in {get_pending_events(process_input(resolver, iv[1], iv[2]))} :
       \E second \in {get_pending_events(process_input(first.resolver, iv[1], iv[2]))} :
             /\ resolver' = second.resolver
             /\ events' = second.events
             /\ trace' = <<iv, iv>>
             /\ stream' = <<first.events, second.events>>
    /\ UNCHANGED <<cfg, lib_vars, daemon_vars>>

NextRepeat == Prepare \/ RepeatStep

SpecRepeat == Init /\ [][NextRepeat]_vars

-----------------------------------------------------------------------------
(* SpecContract: a resolver constructed from a binding list that holds       *)
(* destinations outside the virtual controller contract                      *)

InitContract ==
    /\ cfg = "illegal"
    /\ resolver = NewResolver(BindingsOf(cfg), CalibrationsOf(cfg))
    /\ events = <<>>
    /\ trace = <<>>
    /\ stream = <<>>
    /\ DaemonIdle

SpecContract == InitContract /\ [][Next]_vars

-----------------------------------------------------------------------------
(* SpecTransform: one calibrated axis binding; the role, the calibration and *)
(* the transform are drawn at construction, the raw values as they arrive    *)

\* calibrations as the setup tools write them and as a config file may hold
\* them: centered, centered without deadzone, resting at the low end, resting
\* at the high end, centre within ten counts of the low end, a deadzone that
\* reaches the low end, and a range of one point
SampleCalibrations ==
    {AxisCalibration(0, 1023, 600, 5), AxisCalibration(0, 1023, 600, 0),
     AxisCalibration(0, 1023, 512, 10),
     AxisCalibration(50, 950, 50, 0), AxisCalibration(50, 950, 50, 5),
     AxisCalibration(50, 950, 950, 5), AxisCalibration(0, 1023, 8, 5),
     AxisCalibration(0, 1023, 600, 600), AxisCalibration(100, 100, 100, 0)}

SampleTransforms ==
    {AxisTransform(invert, range[1], range[2]) :
         invert \in BOOLEAN, range \in {<<-32768, 32767>>, <<0, 255>>, <<-1, 1>>, <<0, 0>>}}

RawValues == {-100, 0, 8, 50, 99, 100, 300, 500, 502, 512, 522, 595, 600, 603, 605,
              945, 950, 1023, 1100}

TransformInput == PhysicalInput(cfg.role, "Abs", ABS_X)
TransformSlot == VirtualSlot("Abs", ABS_X)

InitTransform ==
    /\ cfg \in [role : Roles, cal : SampleCalibrations, xform : SampleTransforms]
    /\ resolver = set_calibration(
                      NewResolver(<<Binding(TransformInput, TransformSlot, cfg.xform)>>,
                                  EmptyMap),
                      cfg.role, ABS_X, cfg.cal)
    /\ events = <<>>
    /\ trace = <<>>
    /\ stream = <<>>
    /\ DaemonIdle

\* the divisor of the branch the raw value takes is not zero
TransformDefined(input_value, role, cal) ==
    IF is_centered(role, cal)
    THEN IF Abs(input_value - cal.center_value) < cal.deadzone_radius THEN TRUE
         ELSE IF input_value < cal.center_value
         THEN cal.center_value - cal.deadzone_radius # cal.observed_min
         ELSE cal.observed_max # cal.center_value + cal.deadzone_radius
    ELSE cal.observed_max # cal.observed_min

INT_MAX == 2147483647
INT_MIN == -2147483647 - 1

\* a - b in 32 bits, for a small and b any int
SubWrap32(a, b) ==
    IF b = INT_MIN THEN (IF a >= 0 THEN INT_MIN + a ELSE INT_MAX + (a + 1))
    ELSE IF b > 0 /\ a < b - INT_MAX - 1 THEN INT_MAX + ((a - b) + INT_MAX) + 2
    ELSE a - b

\* a zero divisor makes the ratio infinite or NaN and the conversion to int
\* undefined: cvttss2si yields INT_MIN, a saturating conversion INT_MAX,
\* INT_MIN or 0; inversion and the clamp follow as for any value
UndefinedTransform(xform) ==
    {ClampOut(xform, IF xform.invert
                     THEN SubWrap32(xform.max_out + xform.min_out, output_value)
                     ELSE output_value) :
         output_value \in {INT_MIN, 0, INT_MAX}}

\* process_input for a raw value of the axis
ApplyTransform ==
    /\ \E raw \in RawValues :
          /\ IF TransformDefined(raw, cfg.role, cfg.cal)
             THEN resolver' = process_input(resolver, TransformInput, raw)
             ELSE \E transformed_value \in UndefinedTransform(cfg.xform) :
                      resolver' =
                          [resolver EXCEPT !.axis_values =
                               MapPut(@, TransformSlot,
                                      MapPut(@[TransformSlot], cfg.role,
                                             Some(transformed_value)))]
          /\ trace' = <<<<TransformInput, raw>>>>
    /\ UNCHANGED <<cfg, lib_vars, events, stream, daemon_vars>>

NextTransform == ApplyTransform

SpecTransform == InitTransform /\ [][NextTransform]_vars

-----------------------------------------------------------------------------
(* SpecCalibrate: set_calibration called at any time between the inputs and  *)
(* the drains                                                                *)

CalibrateConfigs == {"axis", "trigger"}
CalibratedRoles == {"Stick", "Rudder"}
CalibratedCodes == {ABS_X}
InstalledCalibrations == {AxisCalibration(0, 1023, 600, 5), AxisCalibration(0, 255, 128, 10)}

InitCalibrate ==
    /\ Init
    /\ cfg \in CalibrateConfigs

SetCalibration ==
    /\ \E role \in CalibratedRoles, src_code \in CalibratedCodes,
          cal \in InstalledCalibrations :
          resolver' = set_calibration(resolver, role, src_code, cal)
    /\ UNCHANGED <<cfg, lib_vars, events, trace_vars, daemon_vars>>

NextCalibrate == Next \/ SetCalibration

SpecCalibrate == InitCalibrate /\ [][NextCalibrate]_vars

-----------------------------------------------------------------------------
(* The daemon: device table, error handling and reconnection                 *)
(* (src/src/twcs_mapper.cpp)                                                 *)

\* the errno values handle_device_error tells apart; "OTHER" is any other
Errnos == {"OTHER", "ENODEV", "EIO"}

InitialBackoffMs == 500
MaxBackoffMs == 2000
MaxReadFailures == 3

\* one entry of config.inputs
InputConfig(role, optional) == [role |-> role, optional |-> optional]

\* config.inputs: "daemon" has a required stick and an optional rudder,
\* "optional" only an optional rudder, "late" an optional throttle before a
\* required stick, "both" a required stick and a required throttle, "trio" a
\* required stick with an optional throttle and an optional rudder, "grab" a
\* required stick
ConfigInputs(c) ==
    CASE c = "daemon" -> <<InputConfig("Stick", FALSE), InputConfig("Rudder", TRUE)>>
      [] c = "optional" -> <<InputConfig("Rudder", TRUE)>>
      [] c = "late" -> <<InputConfig("Throttle", TRUE), InputConfig("Stick", FALSE)>>
      [] c = "both" -> <<InputConfig("Stick", FALSE), InputConfig("Throttle", FALSE)>>
      [] c = "trio" -> <<InputConfig("Stick", FALSE), InputConfig("Throttle", TRUE),
                         InputConfig("Rudder", TRUE)>>
      [] c = "grab" -> <<InputConfig("Stick", FALSE)>>
      [] OTHER -> <<>>

\* config.grab: "grab" has "grab": true in its settings, the others false
ConfigGrab(c) == c = "grab"

\* the device nodes that exist when the daemon starts: in "daemon" the rudder
\* is not plugged in
StartupPlugged(c) ==
    CASE c = "daemon" -> {{"Stick"}}
      [] c = "grab" -> {{"Stick"}}
      [] c = "optional" -> {{"Rudder"}}
      [] OTHER -> {}

\* struct InputDevice as the startup loop fills it; fd and dev are TRUE while
\* the descriptor is open and the decoder allocated; time_since_attempt is
\* now - last_reconnect_attempt, kept up to MaxBackoffMs; grab_requested is
\* whether ioctl(fd, EVIOCGRAB, 1) was issued on the open descriptor, which
\* the kernel forgets when the descriptor is closed
InputDevice(input_config) ==
    [role |-> input_config.role,
     optional |-> input_config.optional,
     fd |-> TRUE,
     dev |-> TRUE,
     grab_requested |-> ConfigGrab(cfg),
     online |-> TRUE,
     consecutive_read_failures |-> 0,
     reconnect_backoff_ms |-> InitialBackoffMs,
     time_since_attempt |-> 0]

\* main(): the startup loop over config.inputs; a device that cannot be
\* opened is left out of the table when optional
RECURSIVE open_devices(_, _)
open_devices(inputs, present) ==
    IF inputs = <<>> THEN <<>>
    ELSE (IF Head(inputs).role \in present THEN <<InputDevice(Head(inputs))>> ELSE <<>>)
         \o open_devices(Tail(inputs), present)

\* main() returns 1 before the loop when a required device is missing or no
\* device was opened
StartupSucceeds(inputs, present) ==
    /\ \A i \in 1..Len(inputs) : ~inputs[i].optional => inputs[i].role \in present
    /\ open_devices(inputs, present) # <<>>

\* a binding whose role has no opened device is erased
validate_and_filter_bindings(bindings, devices) ==
    SelectSeq(bindings,
              LAMBDA b : \E i \in 1..Len(devices) :
                             devices[i].role = b.src.role /\ devices[i].dev)

\* reopen_device; `opened` says whether realpath, open, libevdev_new_from_fd
\* and validate_device all succeeded
reopen_device(device, opened) ==
    LET closed == IF device.fd
                  THEN [device EXCEPT !.dev = FALSE, !.fd = FALSE,
                                      !.grab_requested = FALSE]
                  ELSE device
    IN IF ~opened THEN closed
       ELSE [closed EXCEPT !.fd = TRUE, !.dev = TRUE, !.online = TRUE,
                           !.consecutive_read_failures = 0,
                           !.reconnect_backoff_ms = InitialBackoffMs]

\* variant: the device is marked offline and its descriptor is left open
handle_device_error_LeavesOpen(device, err) ==
    LET failed == [device EXCEPT !.consecutive_read_failures = @ + 1]
    IN IF err = "ENODEV" \/ err = "EIO"
          \/ failed.consecutive_read_failures >= MaxReadFailures
       THEN [failed EXCEPT !.online = FALSE]
       ELSE failed

\* handle_device_error, reading the errno in force when it is called
handle_device_error(device, err) ==
    LET failed == [device EXCEPT !.consecutive_read_failures = @ + 1]
    IN IF err = "ENODEV" \/ err = "EIO"
          \/ failed.consecutive_read_failures >= MaxReadFailures
       THEN [failed EXCEPT !.online = FALSE, !.dev = FALSE, !.fd = FALSE,
                           !.grab_requested = FALSE]
       ELSE failed

\* variant: the backoff doubles without a ceiling
NextBackoff_Uncapped(reconnect_backoff_ms) == reconnect_backoff_ms * 2

\* std::min(2000, device.reconnect_backoff_ms * 2)
NextBackoff(reconnect_backoff_ms) == Min(MaxBackoffMs, reconnect_backoff_ms * 2)

\* whether attempt_device_reconnection gets as far as reopen_device
AttemptsReconnect(device) ==
    /\ ~(device.online \/ device.optional)
    /\ device.time_since_attempt >= device.reconnect_backoff_ms

attempt_device_reconnection(device, opened) ==
    IF ~AttemptsReconnect(device) THEN device
    ELSE LET reopened == reopen_device([device EXCEPT !.time_since_attempt = 0], opened)
         IN IF opened
            THEN [reopened EXCEPT !.reconnect_backoff_ms = InitialBackoffMs]
            ELSE [reopened EXCEPT !.reconnect_backoff_ms = NextBackoff(@)]

\* the input_event records written to the virtual device
OutEvent(slot, value) ==
    [type |-> IF slot.kind = "Key" THEN "EV_KEY" ELSE "EV_ABS",
     code |-> slot.code, value |-> value]
SyncEvent == [type |-> "EV_SYN", code |-> 0, value |-> 0]

\* the input_event records a device of `role` may deliver
SourceEvents(c, role) ==
    {[type |-> "EV_KEY", code |-> iv[1].code, value |-> iv[2]] :
         iv \in {x \in InputsOf(c) : x[1].role = role}}
    \cup {SyncEvent}

\* the writes of one dispatch joined to the log, empty dispatches left out
Logged(log, writes) ==
    IF writes = <<>> THEN log
    ELSE LET all == Append(log, writes)
         IN IF Len(all) > MaxLog THEN Tail(all) ELSE all

\* the descriptors registered with epoll: close() removes one, the reconnect
\* pass adds every open one
Registered == {i \in 1..Len(input_devices) : input_devices[i].fd}

\* the orders in which epoll_wait may report a set of ready descriptors
ReadyLists(S) ==
    {q \in UNION {[1..k -> S] : k \in 0..Cardinality(S)} :
         \A i, j \in 1..Len(q) : i # j => q[i] # q[j]}

-----------------------------------------------------------------------------
(* SpecDaemon: main() from the end of startup on                             *)

DaemonConfigs == {"daemon", "optional"}

\* the state main() enters the loop in
LoopEntered ==
    /\ plugged \in {present \in StartupPlugged(cfg) :
                       StartupSucceeds(ConfigInputs(cfg), present)}
    /\ input_devices = open_devices(ConfigInputs(cfg), plugged)
    /\ resolver = NewResolver(validate_and_filter_bindings(BindingsOf(cfg), input_devices),
                              CalibrationsOf(cfg))
    /\ events = <<>>
    /\ trace = <<>>
    /\ stream = <<>>
    /\ pc = "epoll_wait"
    /\ ready = <<>>
    /\ errno = "OTHER"
    /\ uinput_log = <<>>
    /\ running = TRUE
    /\ virtual_device = initialize(NewVirtualDevice, "none")
    /\ uinput_ok = TRUE
    /\ epoll_fd = TRUE
    /\ exit_code = NoValue
    /\ input_index = Len(ConfigInputs(cfg)) + 1
    /\ LibIdle

InitDaemon == cfg \in DaemonConfigs /\ LoopEntered

\* dt milliseconds pass
Elapse(devices, dt) ==
    [i \in 1..Len(devices) |->
        [devices[i] EXCEPT !.time_since_attempt = Min(@ + dt, MaxBackoffMs)]]

\* variant: the wait is entered without looking at the flag
EpollWait_IgnoresFlag ==
    /\ pc = "epoll_wait"
    /\ \E dt \in {0, TickMs} : input_devices' = Elapse(input_devices, dt)
    /\ \E q \in ReadyLists(Registered) : ready' = q
    /\ pc' = "dispatch"
    /\ UNCHANGED <<cfg, lib_vars, resolver_vars, trace_vars, errno, uinput_log, plugged, running,
                   life_vars>>

\* epoll_wait(epoll_fd, events, 8, 100) returns the ready descriptors
EpollWait ==
    /\ pc = "epoll_wait"
    /\ running
    /\ \E dt \in {0, TickMs} : input_devices' = Elapse(input_devices, dt)
    /\ \E q \in ReadyLists(Registered) : ready' = q
    /\ pc' = "dispatch"
    /\ UNCHANGED <<cfg, lib_vars, resolver_vars, trace_vars, errno, uinput_log, plugged, running, life_vars>>

\* epoll_wait fails with EINTR: `continue`, the reconnect pass is skipped
EpollInterrupted ==
    /\ pc = "epoll_wait"
    /\ running
    /\ \E dt \in {0, TickMs} : input_devices' = Elapse(input_devices, dt)
    /\ errno' = "OTHER"
    /\ UNCHANGED <<cfg, lib_vars, resolver_vars, trace_vars, pc, ready, uinput_log, plugged, running, life_vars>>

\* the device the next ready descriptor belongs to can be read; a ready
\* descriptor was registered when epoll_wait returned and only its own
\* dispatch closes it, so the `continue` for an offline device is never taken
Dispatching ==
    /\ pc = "dispatch"
    /\ ready # <<>>
    /\ input_devices[Head(ready)].online
    /\ input_devices[Head(ready)].fd
    /\ input_devices[Head(ready)].dev

\* VirtualDevice::write_event and emit_sync: false without a ready device,
\* else the result of write()
write_event(ev) == virtual_device.uinput_fd /\ virtual_device.ready /\ uinput_ok
emit_sync == virtual_device.uinput_fd /\ virtual_device.ready /\ uinput_ok

\* a write() to the virtual device was made and failed, which sets errno
write_failed(pending, ev) ==
    /\ virtual_device.uinput_fd /\ virtual_device.ready /\ ~uinput_ok
    /\ (pending # <<>> \/ ev.type = "EV_SYN")

\* the loop over pending_events: what was written, and events_emitted
RECURSIVE write_pending(_, _)
write_pending(pending, acc) ==
    IF pending = <<>> THEN acc
    ELSE LET out_ev == OutEvent(Head(pending)[1], Head(pending)[2])
         IN write_pending(Tail(pending),
                IF write_event(out_ev)
                THEN [writes |-> Append(acc.writes, out_ev), events_emitted |-> TRUE]
                ELSE acc)

\* the switch on ev.type: EV_ABS and EV_KEY go to the resolver, EV_SYN does not
process_event(r, role, ev) ==
    IF ev.type = "EV_SYN" THEN r
    ELSE process_input(r, PhysicalInput(role, IF ev.type = "EV_KEY" THEN "Key" ELSE "Abs",
                                        ev.code),
                       ev.value)

\* rc == LIBEVDEV_READ_STATUS_SUCCESS: process the event, drain the resolver,
\* write what it returned, then sync
ReadEvent ==
    /\ Dispatching
    /\ \E ev \in SourceEvents(cfg, input_devices[Head(ready)].role) :
       \E processed \in {process_event(resolver, input_devices[Head(ready)].role, ev)} :
       \E got \in {get_pending_events(processed)} :
       \E written \in {write_pending(got.events,
                                     [writes |-> <<>>, events_emitted |-> FALSE])} :
          /\ resolver' = got.resolver
          /\ events' = got.events
          /\ uinput_log' =
                 Logged(uinput_log,
                        written.writes
                        \o (IF (written.events_emitted \/ ev.type = "EV_SYN") /\ emit_sync
                            THEN <<SyncEvent>> ELSE <<>>))
          /\ errno' \in IF write_failed(got.events, ev) THEN Errnos ELSE {errno}
    /\ input_devices' =
           [input_devices EXCEPT ![Head(ready)].consecutive_read_failures = 0]
    /\ ready' = Tail(ready)
    /\ UNCHANGED <<cfg, lib_vars, trace_vars, pc, plugged, running, life_vars>>

\* rc == -EAGAIN
ReadWouldBlock ==
    /\ Dispatching
    /\ input_devices' =
           [input_devices EXCEPT ![Head(ready)].consecutive_read_failures = 0]
    /\ errno' = "OTHER"
    /\ ready' = Tail(ready)
    /\ UNCHANGED <<cfg, lib_vars, resolver_vars, trace_vars, pc, uinput_log, plugged, running, life_vars>>

\* rc == LIBEVDEV_READ_STATUS_SYNC: no call failed, errno keeps the value an
\* earlier call left, and the `else` branch runs handle_device_error
ReadSyncStatus ==
    /\ Dispatching
    /\ input_devices' =
           [input_devices EXCEPT ![Head(ready)] = handle_device_error(@, errno)]
    /\ ready' = Tail(ready)
    /\ UNCHANGED <<cfg, lib_vars, resolver_vars, trace_vars, pc, errno, uinput_log, plugged,
                   running, life_vars>>

\* variant: the error path also tears the virtual device down
ReadError_DestroysDevice ==
    /\ Dispatching
    /\ \E e \in Errnos :
          /\ errno' = e
          /\ input_devices' =
                 [input_devices EXCEPT ![Head(ready)] = handle_device_error(@, e)]
    /\ ready' = Tail(ready)
    /\ virtual_device' = cleanup(virtual_device)
    /\ UNCHANGED <<cfg, lib_vars, resolver_vars, trace_vars, pc, uinput_log, plugged, running,
                   uinput_ok, epoll_fd, exit_code, input_index>>

\* rc < 0 other than -EAGAIN: the read failed and set errno
ReadError ==
    /\ Dispatching
    /\ \E e \in Errnos :
          /\ errno' = e
          /\ input_devices' =
                 [input_devices EXCEPT ![Head(ready)] = handle_device_error(@, e)]
    /\ ready' = Tail(ready)
    /\ UNCHANGED <<cfg, lib_vars, resolver_vars, trace_vars, pc, uinput_log, plugged, running, life_vars>>

\* errno after the reconnect pass from device k on: a failed reopen sets it,
\* epoll_ctl(ADD) sets it (EEXIST) for a descriptor that is already registered
RECURSIVE ErrnoAfterPass(_, _, _, _, _)
ErrnoAfterPass(before, after, errs, k, err) ==
    IF k > Len(before) THEN err
    ELSE LET attempted == AttemptsReconnect(before[k])
             e1 == IF attempted /\ ~after[k].online THEN errs[k] ELSE err
             e2 == IF after[k].online /\ after[k].fd /\ ~attempted THEN "OTHER" ELSE e1
         IN ErrnoAfterPass(before, after, errs, k + 1, e2)

\* the loop over input_devices after the ready descriptors: for each device
\* attempt_device_reconnection, then epoll_ctl(ADD) if it is online
ReconnectPass ==
    /\ pc = "dispatch"
    /\ ready = <<>>
    /\ \E opened \in [1..Len(input_devices) -> BOOLEAN],
          errs \in [1..Len(input_devices) -> Errnos] :
          /\ \A i \in 1..Len(input_devices) :
                /\ opened[i] => AttemptsReconnect(input_devices[i])
                                /\ input_devices[i].role \in plugged
                /\ (~AttemptsReconnect(input_devices[i]) \/ opened[i])
                       => errs[i] = "OTHER"
          /\ LET after == [i \in 1..Len(input_devices) |->
                              attempt_device_reconnection(input_devices[i], opened[i])]
             IN /\ input_devices' = after
                /\ errno' = ErrnoAfterPass(input_devices, after, errs, 1, errno)
    /\ pc' = "epoll_wait"
    /\ UNCHANGED <<cfg, lib_vars, resolver_vars, trace_vars, ready, uinput_log, plugged, running, life_vars>>

\* the environment: a configured device is plugged in or pulled; the daemon
\* looks at the device nodes in the reconnect pass only, so a change during
\* the dispatches is the same as one before epoll_wait
PlugChange ==
    /\ pc = "epoll_wait"
    /\ \E i \in 1..Len(ConfigInputs(cfg)) :
          LET role == ConfigInputs(cfg)[i].role
          IN plugged' = IF role \in plugged THEN plugged \ {role}
                        ELSE plugged \cup {role}
    /\ UNCHANGED <<cfg, lib_vars, resolver_vars, trace_vars, input_devices, pc, ready, errno,
                   uinput_log, running, life_vars>>

NextDaemon ==
    \/ EpollWait
    \/ EpollInterrupted
    \/ ReadEvent
    \/ ReadWouldBlock
    \/ ReadSyncStatus
    \/ ReadError
    \/ ReconnectPass
    \/ PlugChange

SpecDaemon == InitDaemon /\ [][NextDaemon]_vars

\* the same loop under a configuration with exclusive grab enabled
InitGrab == cfg = "grab" /\ LoopEntered

SpecGrab == InitGrab /\ [][NextDaemon]_vars

-----------------------------------------------------------------------------
(* The daemon's life cycle: signals, leaving the loop, cleanup               *)

\* SIGINT or SIGTERM is delivered: signal_handler clears the flag.  A wait
\* it interrupts returns EINTR and `continue` goes to the head check.
Signal ==
    /\ pc \in {"epoll_wait", "dispatch"}
    /\ running
    /\ running' = FALSE
    /\ UNCHANGED <<cfg, lib_vars, resolver_vars, trace_vars, input_devices, pc, ready, errno,
                   uinput_log, plugged, life_vars>>

\* every descriptor of the table closed and every decoder freed
CloseAll(devices) ==
    [i \in 1..Len(devices) |->
        [devices[i] EXCEPT !.dev = FALSE, !.fd = FALSE, !.grab_requested = FALSE]]

\* SIGHUP is delivered: main() installs handlers for SIGINT and SIGTERM
\* only, so the default action ends the process; the kernel closes its
\* descriptors and with the uinput descriptor the virtual device goes.  The
\* signal is taken between loop iterations, where the process waits.
Sighup ==
    /\ pc = "epoll_wait"
    /\ pc' = "killed"
    /\ virtual_device' = cleanup(virtual_device)
    /\ epoll_fd' = FALSE
    /\ input_devices' = CloseAll(input_devices)
    /\ UNCHANGED <<cfg, lib_vars, resolver_vars, trace_vars, ready, errno, uinput_log, plugged,
                   running, uinput_ok, exit_code, input_index>>

\* while (running) finds the flag cleared
LoopExit ==
    /\ pc = "epoll_wait"
    /\ ~running
    /\ pc' = "cleanup"
    /\ UNCHANGED <<cfg, lib_vars, resolver_vars, trace_vars, input_devices, ready, errno,
                   uinput_log, plugged, running, life_vars>>

\* epoll_wait fails with an errno other than EINTR: break
EpollFails ==
    /\ pc = "epoll_wait"
    /\ running
    /\ errno' = "OTHER"
    /\ pc' = "cleanup"
    /\ UNCHANGED <<cfg, lib_vars, resolver_vars, trace_vars, input_devices, ready, uinput_log,
                   plugged, running, life_vars>>

\* virtual_device.cleanup()
CleanupVirtualDevice ==
    /\ pc = "cleanup"
    /\ virtual_device' = cleanup(virtual_device)
    /\ pc' = "close_epoll"
    /\ UNCHANGED <<cfg, lib_vars, resolver_vars, trace_vars, input_devices, ready, errno,
                   uinput_log, plugged, running, uinput_ok, epoll_fd, exit_code,
                   input_index>>

\* close(epoll_fd)
CloseEpoll ==
    /\ pc = "close_epoll"
    /\ epoll_fd' = FALSE
    /\ pc' = "close_devices"
    /\ UNCHANGED <<cfg, lib_vars, resolver_vars, trace_vars, input_devices, ready, errno,
                   uinput_log, plugged, running, virtual_device, uinput_ok, exit_code,
                   input_index>>

\* for each device libevdev_free(dev.dev); close(dev.fd); then return 0
CloseDevices ==
    /\ pc = "close_devices"
    /\ input_devices' = CloseAll(input_devices)
    /\ exit_code' = Some(0)
    /\ pc' = "exit"
    /\ UNCHANGED <<cfg, lib_vars, resolver_vars, trace_vars, ready, errno, uinput_log, plugged,
                   running, virtual_device, uinput_ok, epoll_fd, input_index>>

NextLifecycle ==
    \/ NextDaemon
    \/ Signal
    \/ Sighup
    \/ LoopExit
    \/ EpollFails
    \/ CleanupVirtualDevice
    \/ CloseEpoll
    \/ CloseDevices

SpecLifecycle == InitDaemon /\ [][NextLifecycle]_vars

-----------------------------------------------------------------------------
(* SpecLive: the daemon with one optional device, a uinput that can stop     *)
(* accepting writes, and a scheduler that lets the process run               *)

\* uinput stops accepting writes for good
UinputBreaks ==
    /\ pc = "epoll_wait"
    /\ uinput_ok
    /\ uinput_ok' = FALSE
    /\ UNCHANGED <<cfg, lib_vars, resolver_vars, trace_vars, input_devices, pc, ready, errno,
                   uinput_log, plugged, running, virtual_device, epoll_fd, exit_code,
                   input_index>>

\* the steps the process takes on its own account: the loop head and the
\* wait, which the 100 ms timeout ends, each read that returns without an
\* event, the reconnect pass and the cleanup.  (A read that returns an event
\* is the device's doing; where it can happen ReadWouldBlock can too.)
DaemonStep ==
    \/ EpollWait
    \/ EpollInterrupted
    \/ ReadWouldBlock
    \/ ReadSyncStatus
    \/ ReadError
    \/ ReconnectPass
    \/ LoopExit
    \/ CleanupVirtualDevice
    \/ CloseEpoll
    \/ CloseDevices

InitLive == InitDaemon /\ cfg = "optional"

NextLive ==
    \/ NextDaemon
    \/ Signal
    \/ LoopExit
    \/ EpollFails
    \/ CleanupVirtualDevice
    \/ CloseEpoll
    \/ CloseDevices
    \/ UinputBreaks

\* the process is scheduled as long as it has a step to take
SpecLive == InitLive /\ [][NextLive]_vars /\ WF_vars(DaemonStep)

-----------------------------------------------------------------------------
(* SpecStartup: main() from the startup loop over config.inputs to the       *)
(* first epoll_wait, or to the return that ends it before                    *)

StartupConfigs == {"daemon", "optional", "late", "both", "trio"}

\* how far the startup loop gets with one entry of config.inputs: by_id is
\* empty, realpath fails, open fails, libevdev_new_from_fd fails,
\* validate_device fails, or the device is pushed to the table
OpenOutcomes(role) ==
    IF role \in plugged THEN {"unconfigured", "open", "init", "validate", "ok"}
    ELSE {"unconfigured", "resolve"}

\* the table after the entry: a device that got through is appended; the
\* descriptor of one that failed after open was closed on the spot
open_input(devices, input_config, outcome) ==
    IF outcome = "ok" THEN Append(devices, InputDevice(input_config)) ELSE devices

\* variant: a failing required device is skipped like an optional one
fatal_never(input_config, outcome) == FALSE

\* if (!input_config.optional) return 1
fatal(input_config, outcome) == outcome # "ok" /\ ~input_config.optional

InitStartup ==
    /\ cfg \in StartupConfigs
    /\ plugged \in SUBSET {ConfigInputs(cfg)[i].role : i \in 1..Len(ConfigInputs(cfg))}
    /\ resolver = NewResolver(BindingsOf(cfg), CalibrationsOf(cfg))
    /\ events = <<>>
    /\ trace = <<>>
    /\ stream = <<>>
    /\ input_devices = <<>>
    /\ pc = "open_devices"
    /\ ready = <<>>
    /\ errno = "OTHER"
    /\ uinput_log = <<>>
    /\ running = TRUE
    /\ virtual_device = NewVirtualDevice
    /\ uinput_ok = TRUE
    /\ epoll_fd = FALSE
    /\ exit_code = NoValue
    /\ input_index = 1
    /\ LibIdle

\* one pass of the loop over config.inputs
OpenInput ==
    /\ pc = "open_devices"
    /\ input_index <= Len(ConfigInputs(cfg))
    /\ \E outcome \in OpenOutcomes(ConfigInputs(cfg)[input_index].role) :
          /\ input_devices' = open_input(input_devices, ConfigInputs(cfg)[input_index],
                                         outcome)
          /\ IF fatal(ConfigInputs(cfg)[input_index], outcome)
             THEN /\ pc' = "exit"
                  /\ exit_code' = Some(1)
                  /\ UNCHANGED input_index
             ELSE /\ input_index' = input_index + 1
                  /\ UNCHANGED <<pc, exit_code>>
    /\ UNCHANGED <<cfg, lib_vars, resolver_vars, trace_vars, ready, errno, uinput_log, plugged,
                   running, virtual_device, uinput_ok, epoll_fd>>

\* if (input_devices.empty()) return 1
NoDevices ==
    /\ pc = "open_devices"
    /\ input_index > Len(ConfigInputs(cfg))
    /\ input_devices = <<>>
    /\ pc' = "exit"
    /\ exit_code' = Some(1)
    /\ UNCHANGED <<cfg, lib_vars, resolver_vars, trace_vars, input_devices, ready, errno,
                   uinput_log, plugged, running, virtual_device, uinput_ok, epoll_fd,
                   input_index>>

\* virtual_device.initialize(); on failure the devices are closed, return 1
CreateVirtualDevice ==
    /\ pc = "open_devices"
    /\ input_index > Len(ConfigInputs(cfg))
    /\ input_devices # <<>>
    /\ \E failed \in InitializeSteps \cup {"none"} :
          /\ virtual_device' = initialize(virtual_device, failed)
          /\ IF failed = "none"
             THEN /\ pc' = "epoll_create"
                  /\ UNCHANGED <<input_devices, exit_code>>
             ELSE /\ input_devices' = CloseAll(input_devices)
                  /\ pc' = "exit"
                  /\ exit_code' = Some(1)
    /\ UNCHANGED <<cfg, lib_vars, resolver_vars, trace_vars, ready, errno, uinput_log, plugged,
                   running, uinput_ok, epoll_fd, input_index>>

\* epoll_create1(0); on failure cleanup(), the devices are closed, return 1
EpollCreate ==
    /\ pc = "epoll_create"
    /\ \E created \in BOOLEAN :
          IF created
          THEN /\ epoll_fd' = TRUE
               /\ pc' = "epoll_add"
               /\ UNCHANGED <<input_devices, virtual_device, exit_code>>
          ELSE /\ virtual_device' = cleanup(virtual_device)
               /\ input_devices' = CloseAll(input_devices)
               /\ pc' = "exit"
               /\ exit_code' = Some(1)
               /\ UNCHANGED epoll_fd
    /\ UNCHANGED <<cfg, lib_vars, resolver_vars, trace_vars, ready, errno, uinput_log, plugged,
                   running, uinput_ok, input_index>>

\* epoll_ctl(ADD) for every device; on failure everything is closed, return
\* 1; else the resolver is built and the loop is entered
EpollAdd ==
    /\ pc = "epoll_add"
    /\ \E added \in BOOLEAN :
          IF added
          THEN /\ resolver' =
                      NewResolver(validate_and_filter_bindings(BindingsOf(cfg),
                                                               input_devices),
                                  CalibrationsOf(cfg))
               /\ pc' = "epoll_wait"
               /\ UNCHANGED <<input_devices, virtual_device, epoll_fd, exit_code>>
          ELSE /\ virtual_device' = cleanup(virtual_device)
               /\ input_devices' = CloseAll(input_devices)
               /\ epoll_fd' = FALSE
               /\ pc' = "exit"
               /\ exit_code' = Some(1)
               /\ UNCHANGED resolver
    /\ UNCHANGED <<cfg, lib_vars, events, trace_vars, ready, errno, uinput_log, plugged, running,
                   uinput_ok, input_index>>

NextStartup ==
    \/ OpenInput
    \/ NoDevices
    \/ CreateVirtualDevice
    \/ EpollCreate
    \/ EpollAdd

SpecStartup == InitStartup /\ [][NextStartup]_vars

-----------------------------------------------------------------------------
(* SpecDevice: the VirtualDevice under any order of calls                    *)

\* the records handed to write_event
DeviceEvents ==
    {OutEvent(VirtualSlot("Key", BTN_SOUTH), v) : v \in {0, 1}}
    \cup {OutEvent(VirtualSlot("Abs", ABS_X), v) : v \in {-32768, 32767}}

Returned(result) == IF result THEN "true" ELSE "false"

InitDevice ==
    /\ cfg = "device"
    /\ resolver = NewResolver(<<>>, EmptyMap)
    /\ events = <<>>
    /\ trace = <<>>
    /\ stream = <<>>
    /\ DaemonIdle

DeviceRest ==
    <<cfg, resolver_vars, trace_vars, input_devices, pc, ready, errno, plugged, running,
      epoll_fd, exit_code, input_index, input_sources, loop_epoll_fd, active_devices,
      registered, config>>

\* initialize(); any of its calls may fail
DeviceInitialize ==
    /\ \E failed \in InitializeSteps \cup {"none"} :
          /\ virtual_device' = initialize(virtual_device, failed)
          /\ syscalls' = <<"initialize", Returned(virtual_device'.ready)>>
    /\ UNCHANGED <<DeviceRest, uinput_log, uinput_ok>>

\* cleanup()
DeviceCleanup ==
    /\ virtual_device' = cleanup(virtual_device)
    /\ syscalls' = <<"cleanup">>
    /\ UNCHANGED <<DeviceRest, uinput_log, uinput_ok>>

\* write_event(ev)
DeviceWriteEvent ==
    /\ \E ev \in DeviceEvents :
          /\ uinput_log' = IF write_event(ev) THEN Logged(uinput_log, <<ev>>)
                           ELSE uinput_log
          /\ syscalls' = <<"write_event", Returned(write_event(ev))>>
    /\ UNCHANGED <<DeviceRest, virtual_device, uinput_ok>>

\* emit_sync()
DeviceEmitSync ==
    /\ uinput_log' = IF emit_sync THEN Logged(uinput_log, <<SyncEvent>>) ELSE uinput_log
    /\ syscalls' = <<"emit_sync", Returned(emit_sync)>>
    /\ UNCHANGED <<DeviceRest, virtual_device, uinput_ok>>

\* write() to the uinput descriptor starts to fail, or to succeed again
UinputChanges ==
    /\ uinput_ok' = ~uinput_ok
    /\ UNCHANGED <<DeviceRest, virtual_device, uinput_log, syscalls>>

NextDevice ==
    \/ DeviceInitialize \/ DeviceCleanup \/ DeviceWriteEvent \/ DeviceEmitSync
    \/ UinputChanges

SpecDevice == InitDevice /\ [][NextDevice]_vars

-----------------------------------------------------------------------------
(* InputSource (src/src/input_source.hpp) and EpollLoop (src/src/epoll_loop.cpp) *)

SourceIds == {"Stick", "Throttle"}

\* fd >= 0, dev != nullptr, grabbed
InputSource(fd, dev, grabbed) == [fd |-> fd, dev |-> dev, grabbed |-> grabbed]
NewInputSource == InputSource(FALSE, FALSE, FALSE)

\* the states open_and_init passes through: nothing, the fd, the fd and the
\* decoder, and the grab on top
ConstructionStates ==
    {NewInputSource, InputSource(TRUE, FALSE, FALSE), InputSource(TRUE, TRUE, FALSE),
     InputSource(TRUE, TRUE, TRUE)}

\* variant: the fd is closed before the decoder that reads from it is freed
close_and_free_CloseFirst(source) ==
    [source |-> NewInputSource,
     calls |-> (IF source.grabbed /\ source.fd THEN <<"ungrab">> ELSE <<>>)
               \o (IF source.fd THEN <<"close">> ELSE <<>>)
               \o (IF source.dev THEN <<"libevdev_free">> ELSE <<>>)]

\* close_and_free: [source |-> the source after, calls |-> what it called]
close_and_free(source) ==
    [source |-> NewInputSource,
     calls |-> (IF source.grabbed /\ source.fd THEN <<"ungrab">> ELSE <<>>)
               \o (IF source.dev THEN <<"libevdev_free">> ELSE <<>>)
               \o (IF source.fd THEN <<"close">> ELSE <<>>)]

\* what can happen inside open_and_init: the first call that fails, if any
InitOutcomes == {"realpath", "open", "libevdev_new_from_fd", "grab", "ok"}

\* open_and_init: [source, calls, rc]
open_and_init(source, grab_enabled, outcome) ==
    LET released == close_and_free(source)
    IN IF outcome = "realpath"
       THEN [source |-> released.source,
             calls |-> released.calls \o <<"realpath">>, rc |-> -1]
       ELSE IF outcome = "open"
       THEN [source |-> released.source,
             calls |-> released.calls \o <<"realpath", "open">>, rc |-> -1]
       ELSE IF outcome = "libevdev_new_from_fd"
       THEN [source |-> released.source,
             calls |-> released.calls
                       \o <<"realpath", "open", "libevdev_new_from_fd", "close">>,
             rc |-> -1]
       ELSE [source |-> InputSource(TRUE, TRUE, grab_enabled /\ outcome # "grab"),
             calls |-> released.calls \o <<"realpath", "open", "libevdev_new_from_fd">>
                       \o (IF grab_enabled THEN <<"grab">> ELSE <<>>),
             rc |-> 0]

\* std::remove + erase
Erase(devices, device) == SelectSeq(devices, LAMBDA d : d # device)

InActive(device) == \E i \in 1..Len(active_devices) : active_devices[i] = device

\* EpollLoop::add_device; EPOLL_CTL_ADD fails for an fd already in the list
add_device(loop, device) ==
    IF ~loop.epoll_fd \/ ~loop.sources[device].fd \/ device \in loop.registered
    THEN loop
    ELSE [loop EXCEPT !.registered = @ \cup {device},
                      !.active_devices = Append(Erase(@, device), device)]

\* EpollLoop::remove_device
remove_device(loop, device) ==
    IF ~loop.epoll_fd \/ ~loop.sources[device].fd
    THEN loop
    ELSE [loop EXCEPT !.registered = @ \ {device},
                      !.active_devices = Erase(@, device)]

\* EpollLoop::rebuild_devices
RECURSIVE add_devices(_, _)
add_devices(loop, devices) ==
    IF devices = <<>> THEN loop
    ELSE add_devices(IF loop.sources[Head(devices)].fd
                     THEN add_device(loop, Head(devices)) ELSE loop,
                     Tail(devices))

rebuild_devices(loop, devices) ==
    IF ~loop.epoll_fd THEN loop
    ELSE add_devices([loop EXCEPT !.registered = {}, !.active_devices = <<>>], devices)

\* what the client's disconnect callback does with the loop
DisconnectCallbacks == {"none", "remove_device"}

\* EpollLoop::handle_disconnect; closing the fd takes it out of the epoll
handle_disconnect(loop, device, callback) ==
    LET closed == [loop EXCEPT !.sources[device] = close_and_free(@).source,
                               !.registered = @ \ {device}]
    IN IF callback = "remove_device" THEN remove_device(closed, device) ELSE closed

\* what epoll_wait and the reads that follow report for one fd
WaitEvents == {"EPOLLHUP", "EPOLLIN_EAGAIN", "EPOLLIN_ENODEV", "EPOLLIN_error"}

\* the body of the loop over the reported events in run_once, for one event
handle_event(loop, device, event, callback) ==
    IF ~(/\ \E i \in 1..Len(loop.active_devices) : loop.active_devices[i] = device
         /\ loop.sources[device].fd) THEN loop
    ELSE IF event = "EPOLLHUP" THEN handle_disconnect(loop, device, callback)
    ELSE IF ~loop.sources[device].dev THEN loop
    ELSE IF event = "EPOLLIN_ENODEV" THEN handle_disconnect(loop, device, callback)
    ELSE loop

RECURSIVE handle_events(_, _, _)
handle_events(loop, reported, callback) ==
    IF reported = <<>> THEN loop
    ELSE handle_events(handle_event(loop, Head(reported)[1], Head(reported)[2], callback),
                       Tail(reported), callback)

TheLoop ==
    [epoll_fd |-> loop_epoll_fd, sources |-> input_sources,
     active_devices |-> active_devices, registered |-> registered]

LoopBecomes(loop) ==
    /\ input_sources' = loop.sources
    /\ active_devices' = loop.active_devices
    /\ registered' = loop.registered

LibRest == <<cfg, resolver_vars, trace_vars, daemon_vars, config>>

InitLoop ==
    /\ cfg = "loop"
    /\ resolver = NewResolver(<<>>, EmptyMap)
    /\ events = <<>>
    /\ trace = <<>>
    /\ stream = <<>>
    /\ input_devices = <<>>
    /\ pc = "none"
    /\ ready = <<>>
    /\ errno = "OTHER"
    /\ uinput_log = <<>>
    /\ plugged = {}
    /\ running = TRUE
    /\ virtual_device = NewVirtualDevice
    /\ uinput_ok = TRUE
    /\ epoll_fd = FALSE
    /\ exit_code = NoValue
    /\ input_index = 1
    /\ input_sources \in [SourceIds -> ConstructionStates]
    /\ loop_epoll_fd = FALSE
    /\ active_devices = <<>>
    /\ registered = {}
    /\ syscalls = <<>>
    /\ config = [profiles |-> EmptyMap, active_profile |-> "default"]

OpenAndInit ==
    /\ \E device \in SourceIds, grab_enabled \in BOOLEAN, outcome \in InitOutcomes :
          LET done == open_and_init(input_sources[device], grab_enabled, outcome)
          IN /\ input_sources' = [input_sources EXCEPT ![device] = done.source]
             /\ syscalls' = done.calls
             /\ registered' = registered \ {device}
    /\ UNCHANGED <<LibRest, loop_epoll_fd, active_devices>>

CloseAndFree ==
    /\ \E device \in SourceIds :
          LET done == close_and_free(input_sources[device])
          IN /\ input_sources' = [input_sources EXCEPT ![device] = done.source]
             /\ syscalls' = done.calls
             /\ registered' = registered \ {device}
    /\ UNCHANGED <<LibRest, loop_epoll_fd, active_devices>>

\* EpollLoop::initialize
LoopInitialize ==
    /\ ~loop_epoll_fd
    /\ loop_epoll_fd' = TRUE
    /\ UNCHANGED <<LibRest, input_sources, active_devices, registered, syscalls>>

\* EpollLoop::cleanup
LoopCleanup ==
    /\ loop_epoll_fd' = FALSE
    /\ active_devices' = <<>>
    /\ registered' = {}
    /\ UNCHANGED <<LibRest, input_sources, syscalls>>

AddDevice ==
    /\ \E device \in SourceIds : LoopBecomes(add_device(TheLoop, device))
    /\ UNCHANGED <<LibRest, loop_epoll_fd, syscalls>>

RemoveDevice ==
    /\ \E device \in SourceIds : LoopBecomes(remove_device(TheLoop, device))
    /\ UNCHANGED <<LibRest, loop_epoll_fd, syscalls>>

RebuildDevices ==
    /\ \E devices \in {<<>>, <<"Stick">>, <<"Stick", "Throttle">>} :
          LoopBecomes(rebuild_devices(TheLoop, devices))
    /\ UNCHANGED <<LibRest, loop_epoll_fd, syscalls>>

\* EpollLoop::run_once: epoll_wait reports some of the registered fds
RunOnce ==
    /\ loop_epoll_fd
    /\ \E reported \in SUBSET registered, event \in [SourceIds -> WaitEvents],
          callback \in DisconnectCallbacks :
          LoopBecomes(handle_events(TheLoop,
                                    SelectSeq(<<<<"Stick", event["Stick"]>>,
                                                <<"Throttle", event["Throttle"]>>>>,
                                              LAMBDA e : e[1] \in reported),
                                    callback))
    /\ UNCHANGED <<LibRest, loop_epoll_fd, syscalls>>

NextLoop ==
    \/ OpenAndInit \/ CloseAndFree \/ LoopInitialize \/ LoopCleanup
    \/ AddDevice \/ RemoveDevice \/ RebuildDevices \/ RunOnce

SpecLoop == InitLoop /\ [][NextLoop]_vars

-----------------------------------------------------------------------------
(* SpecProfiles: profile management of ConfigManager (src/src/config.cpp)    *)

\* the profile ids in use, and their order as keys of the std::map
ProfileIds == {"combat", "default", "flight"}
IdRank(id) == CASE id = "combat" -> 1 [] id = "default" -> 2 [] id = "flight" -> 3
                [] OTHER -> 0

\* struct Profile; bindings stands for bindings_keys and bindings_abs
Profile(name, description, bindings) ==
    [name |-> name, description |-> description, bindings |-> bindings]

\* the binding tables a loaded profile may carry
BindingTables == {"keys1", "keys2"}

\* profiles.begin()->first of a map that is not empty
FirstId(profiles) ==
    CHOOSE id \in DOMAIN profiles : \A other \in DOMAIN profiles : IdRank(id) <= IdRank(other)

\* what begin()->first may read on an empty map: the key of the end node,
\* which no element owns
UndefinedIds == ProfileIds \cup {""}

MapErase(f, k) == [x \in (DOMAIN f) \ {k} |-> f[x]]

\* each operation: [config |-> the Config after, rc |-> what it returned]
switch_profile(c, profile_name) ==
    IF profile_name \in DOMAIN c.profiles
    THEN [config |-> [c EXCEPT !.active_profile = profile_name], rc |-> TRUE]
    ELSE [config |-> c, rc |-> FALSE]

create_profile(c, name, display_name) ==
    IF name \in DOMAIN c.profiles THEN [config |-> c, rc |-> FALSE]
    ELSE LET new_profile ==
                 Profile(IF display_name = "" THEN name ELSE display_name, "",
                         IF c.active_profile \in DOMAIN c.profiles
                         THEN c.profiles[c.active_profile].bindings
                         ELSE "none")
         IN [config |-> [c EXCEPT !.profiles = MapPut(@, name, new_profile)],
             rc |-> TRUE]

\* delete_profile; `undefined` is what begin()->first reads when the erase
\* emptied the map
delete_profile(c, name, undefined) ==
    IF name = "default" \/ name \notin DOMAIN c.profiles
    THEN [config |-> c, rc |-> FALSE]
    ELSE LET erased == MapErase(c.profiles, name)
         IN [config |->
                 [profiles |-> erased,
                  active_profile |->
                      IF c.active_profile # name THEN c.active_profile
                      ELSE IF "default" \in DOMAIN erased THEN "default"
                      ELSE IF erased # EmptyMap THEN FirstId(erased)
                      ELSE undefined],
             rc |-> TRUE]

duplicate_profile(c, source_name, dest_name) ==
    IF source_name \notin DOMAIN c.profiles \/ dest_name \in DOMAIN c.profiles
    THEN [config |-> c, rc |-> FALSE]
    ELSE [config |->
              [c EXCEPT !.profiles =
                            MapPut(@, dest_name,
                                   [c.profiles[source_name] EXCEPT !.name = dest_name])],
          rc |-> TRUE]

\* the configurations load() can return: at least one profile, active_profile
\* one of them
LoadedProfiles ==
    UNION {[ids -> {Profile("Loaded", "loaded", b) : b \in BindingTables}] :
              ids \in (SUBSET ProfileIds) \ {{}}}
LoadedConfigs ==
    {c \in [profiles : LoadedProfiles, active_profile : ProfileIds] :
         c.active_profile \in DOMAIN c.profiles}

ProfilesRest ==
    <<cfg, resolver_vars, trace_vars, daemon_vars, input_sources, loop_epoll_fd,
      active_devices, registered>>

InitProfiles ==
    /\ cfg = "profiles"
    /\ resolver = NewResolver(<<>>, EmptyMap)
    /\ events = <<>>
    /\ trace = <<>>
    /\ stream = <<>>
    /\ input_devices = <<>>
    /\ pc = "none"
    /\ ready = <<>>
    /\ errno = "OTHER"
    /\ uinput_log = <<>>
    /\ plugged = {}
    /\ running = TRUE
    /\ virtual_device = NewVirtualDevice
    /\ uinput_ok = TRUE
    /\ epoll_fd = FALSE
    /\ exit_code = NoValue
    /\ input_index = 1
    /\ input_sources = EmptyMap
    /\ loop_epoll_fd = FALSE
    /\ active_devices = <<>>
    /\ registered = {}
    /\ syscalls = <<>>
    /\ config \in LoadedConfigs

Called(call, done) ==
    /\ config' = done.config
    /\ syscalls' = <<call, Returned(done.rc)>>

SwitchProfile ==
    /\ \E profile_name \in ProfileIds :
          Called("switch_profile", switch_profile(config, profile_name))
    /\ UNCHANGED ProfilesRest

CreateProfile ==
    /\ \E name \in ProfileIds, display_name \in {"", "Alt"} :
          Called("create_profile", create_profile(config, name, display_name))
    /\ UNCHANGED ProfilesRest

DeleteProfile ==
    /\ \E name \in ProfileIds, undefined \in UndefinedIds :
          Called("delete_profile", delete_profile(config, name, undefined))
    /\ UNCHANGED ProfilesRest

DuplicateProfile ==
    /\ \E source_name \in ProfileIds, dest_name \in ProfileIds :
          Called("duplicate_profile", duplicate_profile(config, source_name, dest_name))
    /\ UNCHANGED ProfilesRest

NextProfiles == SwitchProfile \/ CreateProfile \/ DeleteProfile \/ DuplicateProfile

SpecProfiles == InitProfiles /\ [][NextProfiles]_vars

-----------------------------------------------------------------------------
(* What a recorded run says about the physical inputs, read off `trace`     *)
(* alone (no resolver state): the reference the resolver is compared with   *)

BindingSet == {resolver.bindings[i] : i \in 1..Len(resolver.bindings)}
BoundSlots(kind) == {b.dst : b \in {x \in BindingSet : x.dst.kind = kind}}
SourcesOf(slot) == {b.src : b \in {x \in BindingSet : x.dst = slot}}

SetMax(S) == CHOOSE x \in S : \A y \in S : y <= x

\* the steps 1..n of the run at which `src` reported
ReportsOf(src, n) == {i \in 1..n : trace[i][1] = src}
\* whether `src` is held (its latest report is non-zero) after n steps
HeldAfter(src, n) ==
    ReportsOf(src, n) # {} /\ trace[SetMax(ReportsOf(src, n))][2] # 0
\* the OR over the sources of a virtual button after n steps
Level(slot, n) == IF \E src \in SourcesOf(slot) : HeldAfter(src, n) THEN 1 ELSE 0

\* the values a drained vector holds for one slot, in order
RECURSIVE ValuesFor(_, _)
ValuesFor(evs, slot) ==
    IF evs = <<>> THEN <<>>
    ELSE (IF Head(evs)[1] = slot THEN <<Head(evs)[2]>> ELSE <<>>)
         \o ValuesFor(Tail(evs), slot)

\* all values drained for one slot over the run
RECURSIVE SlotStream(_, _)
SlotStream(st, slot) ==
    IF st = <<>> THEN <<>> ELSE ValuesFor(Head(st), slot) \o SlotStream(Tail(st), slot)

\* one event when the OR changes at step n, none otherwise
EdgeAt(slot, n) ==
    IF Level(slot, n) # Level(slot, n - 1) THEN <<Level(slot, n)>> ELSE <<>>

\* the steps 1..n at which an axis of `role` bound to `slot` reported
AxisReports(slot, role, n) ==
    {i \in 1..n : trace[i][1].role = role /\ trace[i][1] \in SourcesOf(slot)}
\* the transformed value of the latest of them
LatestAxisValue(slot, role, n) ==
    LET i == SetMax(AxisReports(slot, role, n))
        b == CHOOSE x \in BindingSet : x.src = trace[i][1] /\ x.dst = slot
    IN apply_axis_transform(resolver.calibrations, trace[i][2], b.xform, role,
                            trace[i][1].code)
\* the roles that have reported a real axis value for the slot
ReportedRoles(slot, n) == {r \in Roles : AxisReports(slot, r, n) # {}}
TopRole(slot, n) ==
    CHOOSE r \in ReportedRoles(slot, n) :
        \A q \in ReportedRoles(slot, n) : RoleRank(r) <= RoleRank(q)

\* the first of Stick, Throttle, Rudder with a cached value, else 0
FirstPresent(role_values) ==
    LET present == {r \in Roles : r \in DOMAIN role_values /\ role_values[r] # NoValue}
    IN IF present = {} THEN 0
       ELSE role_values[CHOOSE r \in present :
                            \A q \in present : RoleRank(r) <= RoleRank(q)][1]

LastOutput(slot) == MapGet(resolver.last_output_values, slot, 0)

\* the axes that get_pending_events also writes from button state
MirroredAxes == {VirtualSlot("Abs", c) : c \in {ABS_HAT0X, ABS_HAT0Y, ABS_Z, ABS_RZ}}

-----------------------------------------------------------------------------
(* Claims *)

FanInScenario ==
    <<In("Stick", "Key", BTN_TRIGGER, 1), In("Throttle", "Key", BTN_TRIGGER, 1),
      In("Stick", "Key", BTN_TRIGGER, 0), In("Throttle", "Key", BTN_TRIGGER, 0)>>

ButtonFanInOn(slots) ==
    /\ \A slot \in slots : \A n \in 1..Len(trace) :
           ValuesFor(stream[n], slot) = EdgeAt(slot, n)
    /\ (cfg = "fanin" /\ trace = FanInScenario)
           => SlotStream(stream, VirtualSlot("Key", BTN_SOUTH)) = <<1, 0>>

\* C1 (as stated): for every virtual button fed by bindings, the drained stream
\* holds one press when the first source becomes pressed, nothing while a
\* source stays pressed, and one release when the last source is released.
C1_ButtonFanInAllButtons == ButtonFanInOn(BoundSlots("Key"))

\* C1 (amended): the same for every virtual button other than the trigger
\* clicks BTN_TL2 and BTN_TR2, whose events are never emitted; and the run
\* press stick, press throttle, release stick, release throttle drains
\* exactly 1, 0 on BTN_SOUTH.
C1_ButtonFanIn ==
    ButtonFanInOn({slot \in BoundSlots("Key") : ~should_suppress_button_output(slot)})

C1_Witness ==
    /\ cfg = "fanin"
    /\ trace = FanInScenario
    /\ SlotStream(stream, VirtualSlot("Key", BTN_SOUTH)) = <<1, 0>>

\* the value a slot has at a drain: a button is 1 iff a source is pressed, an
\* axis is the cached value of the first role present
CurrentValueAtDrain(before, after, slot) ==
    IF slot.kind = "Key"
    THEN LET sources == MapGet(before.button_pressed_sources, slot, EmptyMap)
         IN IF \E src \in DOMAIN sources : sources[src] THEN 1 ELSE 0
    ELSE FirstPresent(after.axis_values[slot])

\* C2: every event (s, v) a drain returns has v different from last_output[s]
\* before the call and equal to last_output[s] after it, and a slot whose
\* current value equals last_output[s] is not returned.
C2_EdgeTriggeredDrain ==
    [][GetPendingEvents =>
         /\ \A i \in 1..Len(events') :
                /\ events'[i][2] # LastOutput(events'[i][1])
                /\ events'[i][1] \in DOMAIN resolver'.last_output_values
                /\ resolver'.last_output_values[events'[i][1]] = events'[i][2]
         /\ \A slot \in (DOMAIN resolver.button_refcounts)
                        \cup (DOMAIN resolver'.axis_values) :
                CurrentValueAtDrain(resolver, resolver', slot) = LastOutput(slot)
                    => ValuesFor(events', slot) = <<>>]_vars

C2_Witness ==
    /\ Len(events) >= 2
    /\ \A i \in 1..Len(events) : LastOutput(events[i][1]) = events[i][2]

HatX == VirtualSlot("Abs", ABS_HAT0X)
HatY == VirtualSlot("Abs", ABS_HAT0Y)
DpadSrc(code) == PhysicalInput("Stick", "Key", code)

\* C3: with two D-pad buttons of one axis held, the mirrored hat axis is 0;
\* LEFT, then also RIGHT, then LEFT released drains -1, 0, +1 on HatX.
C3_OppositeDpadIsNeutral ==
    cfg = "dpad" =>
        /\ (HeldAfter(DpadSrc(BTN_DPAD_LEFT), Len(trace))
            /\ HeldAfter(DpadSrc(BTN_DPAD_RIGHT), Len(trace))) => LastOutput(HatX) = 0
        /\ (HeldAfter(DpadSrc(BTN_DPAD_UP), Len(trace))
            /\ HeldAfter(DpadSrc(BTN_DPAD_DOWN), Len(trace))) => LastOutput(HatY) = 0
        /\ trace = <<In("Stick", "Key", BTN_DPAD_LEFT, 1),
                     In("Stick", "Key", BTN_DPAD_RIGHT, 1),
                     In("Stick", "Key", BTN_DPAD_LEFT, 0)>>
               => SlotStream(stream, HatX) = <<-1, 0, 1>>

\* C4: for HatX, HatY, LT and RT, once a physical axis of any role bound to
\* the slot has reported, the slot's value is the transformed value of the
\* highest-priority role that reported, not the value mirrored from buttons.
C4_MirrorNeverOverridesRealAxis ==
    \A slot \in MirroredAxes :
        ReportedRoles(slot, Len(trace)) # {}
            => LastOutput(slot) =
                   LatestAxisValue(slot, TopRole(slot, Len(trace)), Len(trace))

AxisScenario ==
    <<In("Throttle", "Abs", ABS_X, 100), In("Stick", "Abs", ABS_X, 200),
      In("Throttle", "Abs", ABS_X, 50), In("Stick", "Abs", ABS_X, 0)>>
LX == VirtualSlot("Abs", ABS_X)

\* C5: at every drain an axis has the cached value of the first of Stick,
\* Throttle, Rudder present (0 if none), which for a slot fed by physical
\* axes is the transformed latest report of the highest-priority role that
\* reported; once Stick has reported, a Throttle or Rudder input for the slot
\* drains no event for it; throttle=100, stick=200, throttle=50, stick=0 on
\* LX gives 100, 200, 200 (no event), 0.
C5_AxisPriority ==
    /\ \A slot \in DOMAIN resolver.axis_values :
           LastOutput(slot) = FirstPresent(resolver.axis_values[slot])
    /\ \A slot \in BoundSlots("Abs") :
           LET n == Len(trace) IN
           IF ReportedRoles(slot, n) = {}
           THEN slot \notin MirroredAxes => LastOutput(slot) = 0
           ELSE (slot \notin MirroredAxes \/ TopRole(slot, n) # "Rudder")
                    => LastOutput(slot) = LatestAxisValue(slot, TopRole(slot, n), n)
    /\ \A slot \in BoundSlots("Abs") : \A n \in 1..Len(trace) :
           (/\ trace[n][1] \in SourcesOf(slot)
            /\ trace[n][1].role # "Stick"
            /\ AxisReports(slot, "Stick", n - 1) # {})
               => ValuesFor(stream[n], slot) = <<>>
    /\ (cfg = "axis" /\ trace = AxisScenario)
           => /\ [n \in 1..4 |-> ValuesFor(stream[n], LX)]
                    = <<<<100>>, <<200>>, <<>>, <<0>>>>
              /\ LastOutput(LX) = 0

C5_Witness ==
    /\ cfg = "axis"
    /\ trace = AxisScenario
    /\ SlotStream(stream, LX) = <<100, 200, 0>>

\* the records the virtual device accepted, oldest first
RECURSIVE Flat(_)
Flat(log) == IF log = <<>> THEN <<>> ELSE Head(log) \o Flat(Tail(log))

IsSync(record) == record.type = "EV_SYN"
HasEvent(writes) == \E k \in 1..Len(writes) : ~IsSync(writes[k])
\* some events, then one sync marker
EventsThenOneSync(writes) ==
    /\ Len(writes) >= 2
    /\ IsSync(writes[Len(writes)])
    /\ \A k \in 1..(Len(writes) - 1) : ~IsSync(writes[k])

\* C6: the virtual events written in one dispatch are followed, in that same
\* dispatch, by one sync marker, and no further sync marker is written before
\* the events of the next group.
C6_OneSyncPerGroup ==
    \A b \in 1..Len(uinput_log) :
        HasEvent(uinput_log[b])
            => /\ EventsThenOneSync(uinput_log[b])
               /\ b < Len(uinput_log) => HasEvent(uinput_log[b + 1])

\* C7: the stream written to the virtual device never has two sync markers
\* next to each other.
C7_NoConsecutiveSyncs ==
    \A k \in 1..(Len(Flat(uinput_log)) - 1) :
        ~(IsSync(Flat(uinput_log)[k]) /\ IsSync(Flat(uinput_log)[k + 1]))

\* C8: every source configured as optional has an entry in the device table,
\* Offline while its device is missing, so that the reconnect pass can bring
\* it Online.
C8_OptionalSourceIsTracked ==
    \A k \in 1..Len(ConfigInputs(cfg)) :
        ConfigInputs(cfg)[k].optional
            => \E i \in 1..Len(input_devices) :
                   /\ input_devices[i].role = ConfigInputs(cfg)[k].role
                   /\ input_devices[i].role \notin plugged => ~input_devices[i].online

\* C9: a source goes from Online to Offline exactly in a dispatch whose read
\* failed with ENODEV or EIO or was the third failure in a row, and then its
\* descriptor and decoder are closed and its failure counter is 0.
C9_LeavesOnline ==
    [][\A i \in 1..Len(input_devices) :
          LET failed_read ==
                  /\ ReadError
                  /\ Head(ready) = i
                  /\ \/ errno' \in {"ENODEV", "EIO"}
                     \/ input_devices[i].consecutive_read_failures = 2
          IN /\ (input_devices[i].online /\ ~input_devices'[i].online)
                    => /\ failed_read
                       /\ ~input_devices'[i].fd
                       /\ ~input_devices'[i].dev
                       /\ input_devices'[i].consecutive_read_failures = 0
             /\ failed_read => ~input_devices'[i].online]_vars

\* C10: a source's backoff starts at 500 and is always 500, 1000 or 2000; a
\* failed reconnect attempt takes 500 to 1000, 1000 to 2000 and 2000 to 2000, a
\* successful one sets 500, and nothing else changes it.
C10_Backoff ==
    /\ \A i \in 1..Len(input_devices) : input_devices[i].reconnect_backoff_ms = 500
    /\ [][\A i \in 1..Len(input_devices) :
             LET before == input_devices[i].reconnect_backoff_ms
                 after == input_devices'[i].reconnect_backoff_ms
             IN /\ after \in {500, 1000, 2000}
                /\ IF ReconnectPass /\ AttemptsReconnect(input_devices[i])
                   THEN IF input_devices'[i].online THEN after = 500
                        ELSE after = (CASE before = 500 -> 1000
                                        [] before = 1000 -> 2000
                                        [] OTHER -> 2000)
                   ELSE after = before]_vars

C10_Witness ==
    \E i \in 1..Len(input_devices) :
        /\ ~input_devices[i].online
        /\ input_devices[i].reconnect_backoff_ms = 2000
        /\ input_devices[i].time_since_attempt = 0
        /\ input_devices[i].role \notin plugged

\* the roles whose device is in the table and Offline
OfflineRoles ==
    {input_devices[i].role : i \in {j \in 1..Len(input_devices) : ~input_devices[j].online}}

\* the sources the resolver holds as pressed for a virtual button
HeldSources(slot) ==
    LET sources == MapGet(resolver.button_pressed_sources, slot, EmptyMap)
    IN {src \in DOMAIN sources : sources[src]}

\* C11: once the loop iteration in which a source went Offline is over, a
\* virtual button held only by buttons of Offline sources reads released, and
\* a virtual axis fed by physical axes reads the value of the first role
\* with a value among the roles that are not Offline, or 0.
C11_OfflineStopsContributing ==
    pc = "epoll_wait" =>
        /\ \A slot \in BoundSlots("Key") :
               (\A src \in HeldSources(slot) : src.role \in OfflineRoles)
                   => LastOutput(slot) = 0
        /\ \A slot \in BoundSlots("Abs") :
               LastOutput(slot) =
                   FirstPresent([r \in (DOMAIN resolver.axis_values[slot]) \ OfflineRoles
                                    |-> resolver.axis_values[slot][r]])

\* the trigger clicks and the trigger axes they are mirrored to
TriggerClicks == {BTN_TL2, BTN_TR2}
TriggerAxisOf(btn_code) == IF btn_code = BTN_TL2 THEN ABS_Z ELSE ABS_RZ

\* a Stick or Throttle axis has reported a value for the slot within n steps
HigherPriorityAnalog(slot, n) ==
    \E role \in {"Stick", "Throttle"} : AxisReports(slot, role, n) # {}

\* what the trigger axis emits at step n when only the click drives it
TriggerEdgeAt(btn_slot, n) ==
    IF Level(btn_slot, n) # Level(btn_slot, n - 1)
    THEN <<255 * Level(btn_slot, n)>> ELSE <<>>

\* C19: no drain returns BTN_TL2 or BTN_TR2 as a button event; the pressed
\* state of a bound trigger click is still tracked (its recorded output is
\* the OR of its sources); and while no Stick or Throttle axis has reported
\* a value for the trigger axis, that axis emits 255 when the first source
\* of the click is pressed, 0 when the last one is released, nothing else.
C19_TriggerClicksAreAxes ==
    /\ \A n \in 1..Len(stream) : \A i \in 1..Len(stream[n]) :
           ~(stream[n][i][1].kind = "Key" /\ stream[n][i][1].code \in TriggerClicks)
    /\ \A btn \in TriggerClicks :
           LET btn_slot == VirtualSlot("Key", btn)
               axis_slot == VirtualSlot("Abs", TriggerAxisOf(btn))
           IN btn_slot \in BoundSlots("Key") =>
                  /\ LastOutput(btn_slot) = Level(btn_slot, Len(trace))
                  /\ \A n \in 1..Len(trace) :
                         ~HigherPriorityAnalog(axis_slot, n)
                             => ValuesFor(stream[n], axis_slot) = TriggerEdgeAt(btn_slot, n)

\* both sources of the left trigger click pressed, then both released: the
\* trigger axis went 255 on the first press and 0 on the last release
C19_Witness ==
    /\ cfg = "trigger"
    /\ trace = <<In("Stick", "Key", BTN_BASE5, 1), In("Throttle", "Key", BTN_BASE5, 1),
                 In("Stick", "Key", BTN_BASE5, 0), In("Throttle", "Key", BTN_BASE5, 0)>>
    /\ SlotStream(stream, VirtualSlot("Abs", ABS_Z)) = <<255, 0>>
    /\ LastOutput(VirtualSlot("Key", BTN_TL2)) = 0

\* the same input was given twice, each time followed by a drain
Repeated == Len(trace) = 2 /\ trace[1] = trace[2]

\* C20 (as stated): from any resolver state, the two drains of
\* process(x); drain; process(x); drain return at most one event in total.
C20_AtMostOneEventInTotal ==
    Repeated => Len(stream[1]) + Len(stream[2]) <= 1

\* C20 (amended): from any resolver state, the second drain returns no
\* event, and the first returns at most one event for each virtual slot.
C20_RepeatAddsNothing ==
    Repeated =>
        /\ stream[2] = <<>>
        /\ \A i, j \in 1..Len(stream[1]) :
               stream[1][i][1] = stream[1][j][1] => i = j

\* D-pad left pressed twice on a fresh resolver: the first drain returns the
\* button and the hat axis, the second nothing
C20_Witness ==
    /\ Repeated
    /\ cfg = "dpad"
    /\ trace[1] = In("Stick", "Key", BTN_DPAD_LEFT, 1)
    /\ stream = <<
          <<<<VirtualSlot("Key", BTN_DPAD_LEFT), 1>>, <<VirtualSlot("Abs", ABS_HAT0X), -1>>>>,
          <<>> >>

\* the positions of main() inside the loop
LoopPcs == {"epoll_wait", "dispatch"}

\* C12: a SIGHUP leaves the daemon in its loop with the virtual device it
\* had, and with a resolver rebuilt from the configuration and reset; with
\* the configuration unchanged nothing else changes.
C12_SighupReloads ==
    [][Sighup =>
          /\ pc' \in LoopPcs
          /\ virtual_device' = virtual_device
          /\ resolver' = NewResolver(validate_and_filter_bindings(BindingsOf(cfg),
                                                                  input_devices),
                                     CalibrationsOf(cfg))
          /\ input_devices' = input_devices]_vars

\* some device of the table still has its descriptor open
SourceHeld == \E i \in 1..Len(input_devices) : input_devices[i].fd

\* C13: once the loop has been left, the virtual device is destroyed only
\* after every input source has been released.
C13_SourcesBeforeVirtualDevice ==
    (pc \in {"cleanup", "close_epoll", "close_devices", "exit"} /\ SourceHeld)
        => virtual_device.ready

\* C14: once SIGINT or SIGTERM has cleared the flag, the cleanup code is
\* reached and main() returns; the iteration the signal fell into is not cut
\* short, the loop is left at its head only.
C14_SignalLeadsToCleanup ==
    /\ (~running /\ pc \in LoopPcs) ~> pc = "cleanup"
    /\ ~running ~> pc = "exit"
    /\ [][(~running /\ pc = "dispatch") => pc' \in LoopPcs]_vars

\* the signal fell into an iteration with an event still to handle; and
\* main() has returned after it
C14_Witness == ~running /\ pc = "exit" /\ exit_code = Some(0) /\ uinput_log # <<>>

\* the device is registered with uinput with the declared capabilities
VirtualDeviceRegistered ==
    /\ virtual_device.uinput_fd
    /\ virtual_device.ready
    /\ virtual_device.buttons = virtual_buttons
    /\ DOMAIN virtual_device.absinfo = virtual_axes
    /\ \A axis \in virtual_axes : virtual_device.absinfo[axis] = AbsRange(axis)

\* C15: while main() is in its loop the virtual device is registered with
\* the axes, ranges and buttons declared at startup, and no step of the loop
\* (a read, a read failure, a disconnect, a reconnect attempt, failed or
\* not) changes it.
C15_VirtualDeviceStays ==
    /\ [](pc \in LoopPcs => VirtualDeviceRegistered)
    /\ [][NextDaemon => virtual_device' = virtual_device]_vars

\* a required device is Offline after failed reconnect attempts, another run
\* of the loop is about to start, and the virtual device is registered
C15_Witness ==
    /\ pc = "epoll_wait"
    /\ VirtualDeviceRegistered
    /\ \E i \in 1..Len(input_devices) :
          /\ ~input_devices[i].online
          /\ input_devices[i].reconnect_backoff_ms = MaxBackoffMs

\* a step that handles a read event (the only step of a dispatch that
\* changes the drained vector), drains at least one output event and has its
\* writes to the virtual device fail
FailedWrite ==
    /\ ~uinput_ok
    /\ pc = "dispatch"
    /\ ready # <<>>
    /\ ready' = Tail(ready)
    /\ events' # events
    /\ events' # <<>>

\* C16: if writes to the virtual device keep failing, the daemon terminates.
C16_SustainedFailuresTerminate ==
    ([]<><<FailedWrite>>_vars) => <>(pc = "exit")

\* the startup loop is at an entry of config.inputs
AtInput == pc = "open_devices" /\ input_index <= Len(ConfigInputs(cfg))

\* main() returned 1 out of the startup loop
FailedAtInput ==
    pc = "exit" /\ exit_code = Some(1) /\ input_index <= Len(ConfigInputs(cfg))

\* C17: when main() has returned, on any path, every descriptor it had
\* opened is closed: the input devices', the epoll descriptor and uinput's.
C17_ExitClosesEverything ==
    pc = "exit" => ~SourceHeld /\ ~epoll_fd /\ ~virtual_device.uinput_fd

\* C18: a pass of the startup loop that does not get a required device into
\* the table makes main() return 1 at once, with no virtual device created
\* and the loop never entered; a pass that does not get an optional device
\* into the table goes on to the next entry without returning; so a return
\* out of the startup loop is always at a required entry, with no virtual
\* device; and once main() has returned it takes no further step.
C18_RequiredSourceFailsStartup ==
    /\ [][(AtInput /\ ~ConfigInputs(cfg)[input_index].optional
                  /\ Len(input_devices') = Len(input_devices))
             => (pc' = "exit" /\ exit_code' = Some(1)
                 /\ virtual_device' = NewVirtualDevice)]_vars
    /\ [][(AtInput /\ ConfigInputs(cfg)[input_index].optional)
             => (pc' = "open_devices" /\ exit_code' = NoValue
                 /\ input_index' \in {input_index, input_index + 1})]_vars
    /\ [](FailedAtInput => /\ ~ConfigInputs(cfg)[input_index].optional
                           /\ virtual_device = NewVirtualDevice)
    /\ [][pc = "exit" => pc' = "exit"]_vars

\* a required stick could not be opened after the optional throttle was
C18_Witness ==
    /\ cfg = "late"
    /\ FailedAtInput
    /\ Len(input_devices) = 1

-----------------------------------------------------------------------------
(* C21..C30 *)

\* the fixed contract of the virtual controller: 17 buttons and 8 axes
InContract(slot) ==
    \/ slot.kind = "Key" /\ slot.code \in valid_buttons
    \/ slot.kind = "Abs" /\ slot.code \in valid_axes

IllegalBindings == {i \in 1..Len(resolver.bindings) : ~InContract(resolver.bindings[i].dst)}

Transformed == trace # <<>>
TransformRaw == trace[1][2]
TransformOutput == resolver.axis_values[TransformSlot][cfg.role][1]

\* C22: with a calibration present, the transform output lies in
\* [min_out, max_out] for every raw value, inside or outside the observed
\* range, with or without invert
C22_OutputInRange ==
    Transformed =>
        /\ cfg.xform.min_out <= TransformOutput
        /\ TransformOutput <= cfg.xform.max_out

\* a raw value above the observed range, inverted, and one for which the
\* divisor is zero
C22_Witness ==
    /\ Transformed
    /\ \/ /\ TransformRaw > cfg.cal.observed_max
          /\ cfg.xform.invert
          /\ cfg.xform.min_out < cfg.xform.max_out
          /\ TransformOutput = cfg.xform.min_out
       \/ /\ ~TransformDefined(TransformRaw, cfg.role, cfg.cal)
          /\ TransformOutput = cfg.xform.max_out

\* the distance from either end of the observed range beyond which a centre
\* counts as inside it
Epsilon == 10

CenteredByCalibration(cal) ==
    /\ cal.center_value - cal.observed_min > Epsilon
    /\ cal.observed_max - cal.center_value > Epsilon

\* C27: a calibrated axis gets the two-segment mapping exactly when its
\* centre is more than epsilon away from both ends of the observed range,
\* whatever the role of the source and whatever the deadzone radius
C27_KindFromCalibrationOnly ==
    Transformed => (is_centered(cfg.role, cfg.cal) <=> CenteredByCalibration(cfg.cal))

\* C23: when the centre of the calibration lies strictly inside the observed
\* range, the raw value equal to the centre gives output 0, for every role,
\* every deadzone radius and every invert setting
C23_CenterGivesZero ==
    (/\ Transformed
     /\ cfg.cal.observed_min < cfg.cal.center_value
     /\ cfg.cal.center_value < cfg.cal.observed_max
     /\ TransformRaw = cfg.cal.center_value)
        => TransformOutput = 0

\* the deadzone lies inside the observed range
DeadzoneInside(cal) ==
    /\ cal.observed_min < cal.center_value - cal.deadzone_radius
    /\ cal.center_value + cal.deadzone_radius < cal.observed_max

\* C24: on a centered calibrated axis without invert, observed_min gives
\* min_out, observed_max gives max_out, and the centre and both edges of the
\* deadzone give 0
C24_BoundaryValuesExact ==
    (/\ Transformed
     /\ CenteredByCalibration(cfg.cal)
     /\ DeadzoneInside(cfg.cal)
     /\ ~cfg.xform.invert)
        => /\ TransformRaw = cfg.cal.observed_min => TransformOutput = cfg.xform.min_out
           /\ TransformRaw = cfg.cal.observed_max => TransformOutput = cfg.xform.max_out
           /\ TransformRaw \in {cfg.cal.center_value,
                                 cfg.cal.center_value - cfg.cal.deadzone_radius,
                                 cfg.cal.center_value + cfg.cal.deadzone_radius}
                  => TransformOutput = 0

\* the axes the transform maps in two segments
MappedAsCentered ==
    /\ cfg.role \in {"Stick", "Rudder"}
    /\ cfg.cal.deadzone_radius > 0
    /\ cfg.cal.center_value > cfg.cal.observed_min + 10

\* a raw value on the left segment, deadzone inside the range, no inversion
OnLeftSegment ==
    /\ Transformed
    /\ DeadzoneInside(cfg.cal)
    /\ ~cfg.xform.invert
    /\ cfg.cal.observed_min <= TransformRaw
    /\ TransformRaw <= cfg.cal.center_value - cfg.cal.deadzone_radius

\* the output is within one count of the linear map of
\* [observed_min, center - deadzone_radius] onto [min_out, 0]
LeftSegmentLinear ==
    LET den == (cfg.cal.center_value - cfg.cal.deadzone_radius) - cfg.cal.observed_min
        num == TransformRaw - cfg.cal.observed_min
    IN Abs(TransformOutput * den
           - (cfg.xform.min_out * den + num * (0 - cfg.xform.min_out))) <= den

LeftSegmentExample ==
    /\ Transformed
    /\ cfg.cal = AxisCalibration(0, 1023, 600, 5)
    /\ cfg.xform = AxisTransform(FALSE, -32768, 32767)
    /\ TransformRaw = 300

OnUnidirectional ==
    /\ Transformed
    /\ cfg.cal.observed_min < cfg.cal.observed_max
    /\ ~CenteredByCalibration(cfg.cal)
    /\ ~cfg.xform.invert
    /\ cfg.cal.observed_min <= TransformRaw
    /\ TransformRaw <= cfg.cal.observed_max

\* C26: a calibrated axis resting at one end is mapped by the single linear
\* map of [observed_min, observed_max] onto [min_out, max_out], within one
\* count, and no deadzone is applied; for 50/950 with centre 50 on [0, 255]:
\* 50 gives 0, 500 gives 127 within 1, 950 gives 255
C26_UnidirectionalLinear ==
    /\ OnUnidirectional =>
          LET den == cfg.cal.observed_max - cfg.cal.observed_min
              num == TransformRaw - cfg.cal.observed_min
          IN Abs(TransformOutput * den
                 - (cfg.xform.min_out * den
                    + num * (cfg.xform.max_out - cfg.xform.min_out))) <= den
    /\ (/\ OnUnidirectional
        /\ cfg.cal.observed_min = 50 /\ cfg.cal.observed_max = 950
        /\ cfg.cal.center_value = 50
        /\ cfg.xform.min_out = 0 /\ cfg.xform.max_out = 255)
          => /\ TransformRaw = 50 => TransformOutput = 0
             /\ TransformRaw = 500 => Abs(TransformOutput - 127) <= 1
             /\ TransformRaw = 950 => TransformOutput = 255
             /\ TransformRaw >= 99 => TransformOutput > 0

\* the sources recorded as pressed for a virtual button
PressedSources(slot) ==
    LET sources == MapGet(resolver.button_pressed_sources, slot, EmptyMap)
    IN {src \in DOMAIN sources : sources[src]}

\* C28: for every virtual button slot the refcount equals the number of
\* sources recorded as pressed for it, 0 when no source has reported yet
C28_RefcountCountsPressed ==
    /\ \A slot \in DOMAIN resolver.button_refcounts :
          resolver.button_refcounts[slot] = Cardinality(PressedSources(slot))
    /\ DOMAIN resolver.button_pressed_sources \subseteq DOMAIN resolver.button_refcounts

\* one slot with a pressed and a released source recorded, another with no
\* report at all
C28_Witness ==
    /\ \E slot \in DOMAIN resolver.button_pressed_sources :
          /\ Cardinality(DOMAIN resolver.button_pressed_sources[slot]) = 2
          /\ resolver.button_refcounts[slot] = 1
    /\ \E slot \in DOMAIN resolver.button_refcounts :
          /\ slot \notin DOMAIN resolver.button_pressed_sources
          /\ resolver.button_refcounts[slot] = 0

\* C29: the result of a drain has at most one entry for each virtual slot,
\* also for a slot that a bound axis and the mirroring both write
C29_OneEntryPerSlot ==
    \A i, j \in 1..Len(events) : events[i][1] = events[j][1] => i = j

\* the drain returned ABS_Z, which the throttle axis has reported on and which
\* the mirror of the held BTN_TL2 wrote as well, next to another entry
C29_Witness ==
    /\ cfg = "trigger"
    /\ Len(events) >= 2
    /\ \E i \in 1..Len(events) : events[i][1] = VirtualSlot("Abs", ABS_Z)
    /\ HasValue(resolver.axis_values[VirtualSlot("Abs", ABS_Z)], "Throttle")
    /\ get_button_pressed(resolver, BTN_TL2)

\* everything in the resolver but the calibration table is as before
OnlyCalibrationsChange ==
    /\ resolver'.bindings = resolver.bindings
    /\ resolver'.axis_values = resolver.axis_values
    /\ resolver'.button_refcounts = resolver.button_refcounts
    /\ resolver'.button_pressed_sources = resolver.button_pressed_sources
    /\ resolver'.last_output_values = resolver.last_output_values
    /\ events' = events

\* the drain that follows returns what it would have returned without the call
NextDrainUnchanged ==
    LET before == get_pending_events(resolver)
        after == get_pending_events(resolver')
    IN /\ after.events = before.events
       /\ after.resolver.last_output_values = before.resolver.last_output_values

\* the call installs its calibration for its (role, code), leaves the other
\* entries of the table alone, and a second call with the same arguments
\* changes nothing
InstalledOnce ==
    \A role \in CalibratedRoles, src_code \in CalibratedCodes,
       cal \in InstalledCalibrations :
        resolver' = set_calibration(resolver, role, src_code, cal)
            => /\ resolver'.calibrations[role][src_code] = cal
               /\ \A r \in DOMAIN resolver.calibrations :
                  \A c \in DOMAIN resolver.calibrations[r] :
                      <<r, c>> # <<role, src_code>>
                          => resolver'.calibrations[r][c] = resolver.calibrations[r][c]
               /\ set_calibration(resolver', role, src_code, cal) = resolver'

\* C30: set_calibration is idempotent and changes only the calibration
\* table: the cached axis values, the button state, last_output and the
\* result of the next drain are as they were before the call
C30_SetCalibrationOnlyInstalls ==
    [][SetCalibration => (OnlyCalibrationsChange /\ NextDrainUnchanged /\ InstalledOnce)]_vars

\* the stick axis is calibrated while the resolver still caches 200, the
\* value that only the uncalibrated transform gives, and has not drained it
C30_Witness ==
    /\ cfg = "axis"
    /\ "Stick" \in DOMAIN resolver.calibrations
    /\ ABS_X \in DOMAIN resolver.calibrations["Stick"]
    /\ resolver.axis_values[VirtualSlot("Abs", ABS_X)]["Stick"] = Some(200)
    /\ resolver.last_output_values[VirtualSlot("Abs", ABS_X)] # 200

-----------------------------------------------------------------------------
(* C31..C40 *)

\* the buttons whose events a drain returns
EmittedButtons == {slot \in BoundSlots("Key") : ~should_suppress_button_output(slot)}

\* C31: a button source counts as pressed iff its value is non-zero: the
\* resolver records and counts an autorepeat (2) exactly as a press (1), so
\* the drain after an autorepeat returns one press for a button that was
\* released and nothing for a button already held
C31_AutorepeatIsPress ==
    /\ \A n \in 1..Len(trace) :
          (trace[n][1].kind = "Key" /\ trace[n][2] = 2) =>
              \A slot \in {x \in EmittedButtons : trace[n][1] \in SourcesOf(x)} :
                  ValuesFor(stream[n], slot) =
                      IF Level(slot, n - 1) = 0 THEN <<1>> ELSE <<>>
    /\ \A slot \in BoundSlots("Key") : \A src \in SourcesOf(slot) :
          ReportsOf(src, Len(trace)) # {} =>
              /\ resolver.button_pressed_sources[slot][src]
                     = (trace[SetMax(ReportsOf(src, Len(trace)))][2] # 0)
              /\ resolver.button_refcounts[slot]
                     = Cardinality({x \in SourcesOf(slot) : HeldAfter(x, Len(trace))})
    /\ \A src \in {b.src : b \in {x \in BindingSet : x.dst.kind = "Key"}} :
          process_input(resolver, src, 2) = process_input(resolver, src, 1)

\* autorepeat on a released source drained one press, the autorepeat that
\* followed drained nothing, and the release drained one release
C31_Witness ==
    /\ cfg = "fanin"
    /\ Len(trace) >= 3
    /\ trace[1] = In("Stick", "Key", BTN_TRIGGER, 2)
    /\ trace[2] = In("Stick", "Key", BTN_TRIGGER, 2)
    /\ trace[3] = In("Stick", "Key", BTN_TRIGGER, 0)
    /\ stream[1] = <<<<VirtualSlot("Key", BTN_SOUTH), 1>>>>
    /\ stream[2] = <<>>
    /\ stream[3] = <<<<VirtualSlot("Key", BTN_SOUTH), 0>>>>

\* run_once handled a disconnect of the device: its fd was open and is closed
DisconnectHandled(device) ==
    /\ RunOnce
    /\ input_sources[device].fd
    /\ ~input_sources'[device].fd

\* C32: after a disconnect is handled the device is Offline (fd closed,
\* decoder freed, grab cleared), its fd is not registered and the device is
\* not in the active set; and remove_device for a device whose fd is already
\* closed still takes it out of the set
C32_DisconnectLeavesLoop ==
    /\ [](\A device \in SourceIds :
            (loop_epoll_fd /\ ~input_sources[device].fd) =>
                \A i \in 1..Len(remove_device(TheLoop, device).active_devices) :
                    remove_device(TheLoop, device).active_devices[i] # device)
    /\ [][\A device \in SourceIds :
             DisconnectHandled(device) =>
                 /\ input_sources'[device] = NewInputSource
                 /\ device \notin registered'
                 /\ \A i \in 1..Len(active_devices') : active_devices'[i] # device]_vars

\* the release steps in the order the claim gives them
ReleaseOrder == <<"ungrab", "libevdev_free", "close">>

\* the calls made before path resolution starts: those of the release
RECURSIVE ReleasePart(_)
ReleasePart(calls) ==
    IF calls = <<>> \/ Head(calls) = "realpath" THEN <<>>
    ELSE <<Head(calls)>> \o ReleasePart(Tail(calls))

\* calls are some of the release steps, each once, in the release order
InReleaseOrder(calls) ==
    calls = SelectSeq(ReleaseOrder,
                      LAMBDA step : \E i \in 1..Len(calls) : calls[i] = step)

\* the release touches only what the source holds
ReleasesWhatIsHeld(source, calls) ==
    \A i \in 1..Len(calls) :
        /\ calls[i] = "ungrab" => source.grabbed /\ source.fd
        /\ calls[i] = "libevdev_free" => source.dev
        /\ calls[i] = "close" => source.fd

\* C34: close_and_free releases the grab, then frees the decoder, then closes
\* the fd, each only if held, in any construction state; afterwards fd is -1,
\* dev is null and grabbed is false, and a second call does nothing; an
\* open_and_init that fails leaves the source in that released state
C34_ReleaseInOrder ==
    /\ InReleaseOrder(ReleasePart(syscalls))
    /\ \A device \in SourceIds :
          LET source == input_sources[device]
              done == close_and_free(source)
          IN /\ InReleaseOrder(done.calls)
             /\ ReleasesWhatIsHeld(source, done.calls)
             /\ source.fd => done.calls[Len(done.calls)] = "close"
             /\ done.source = InputSource(FALSE, FALSE, FALSE)
             /\ close_and_free(done.source) = [source |-> done.source, calls |-> <<>>]
             /\ \A grab_enabled \in BOOLEAN, outcome \in InitOutcomes :
                   LET opened == open_and_init(source, grab_enabled, outcome)
                   IN /\ InReleaseOrder(ReleasePart(opened.calls))
                      /\ opened.rc # 0 => opened.source = InputSource(FALSE, FALSE, FALSE)
                      /\ outcome \in {"realpath", "open", "libevdev_new_from_fd"}
                            => opened.rc # 0

\* a grabbed source was released with all three steps, and another source is
\* partially constructed (an fd without a decoder)
C34_Witness ==
    /\ syscalls = <<"ungrab", "libevdev_free", "close">>
    /\ input_sources["Stick"] = NewInputSource
    /\ input_sources["Throttle"] = InputSource(TRUE, FALSE, FALSE)

\* C35: with config.grab set, every device that is online with an open
\* descriptor had the exclusive grab requested on that descriptor, after a
\* reconnection as well as after startup
C35_GrabOnEveryOnlinePeriod ==
    \A i \in 1..Len(input_devices) :
        (ConfigGrab(cfg) /\ input_devices[i].online /\ input_devices[i].fd)
            => input_devices[i].grab_requested

\* a reconnect attempt was made for device i: the pass stamped
\* last_reconnect_attempt, which no other step does
ReconnectAttempted(i) ==
    /\ ReconnectPass
    /\ input_devices[i].time_since_attempt # 0
    /\ input_devices'[i].time_since_attempt = 0

\* the device is Offline and the backoff set by its last attempt has elapsed
BackoffElapsed(device) ==
    /\ ~device.online
    /\ device.time_since_attempt >= device.reconnect_backoff_ms

\* C33: a reconnect attempt is made only for an Offline source and only when
\* the backoff in force since its previous attempt has elapsed; and the
\* reconnect pass of a loop iteration attempts every Offline source whose
\* backoff has elapsed
C33_ReconnectWhenDue ==
    [][\A i \in 1..Len(input_devices) :
          /\ ReconnectAttempted(i) => BackoffElapsed(input_devices[i])
          /\ (ReconnectPass /\ BackoffElapsed(input_devices[i]))
                 => ReconnectAttempted(i)]_vars

\* the last value the virtual device accepted for the slot, 0 if none; the
\* log holds every accepted record as long as it is shorter than MaxLog
RECURSIVE LastAccepted(_, _)
LastAccepted(records, slot) ==
    IF records = <<>> THEN 0
    ELSE LET record == records[Len(records)]
         IN IF record = OutEvent(slot, record.value) THEN record.value
            ELSE LastAccepted(SubSeq(records, 1, Len(records) - 1), slot)

\* C36: between loop iterations, for every slot but the suppressed trigger
\* clicks, the value the resolver remembers as emitted is the last value the
\* virtual device accepted for it, or 0 if it accepted none
C36_LastOutputIsWhatWasAccepted ==
    (pc = "epoll_wait" /\ Len(uinput_log) < MaxLog) =>
        \A slot \in BoundSlots("Key") \cup BoundSlots("Abs")
                    \cup DOMAIN resolver.last_output_values :
            ~should_suppress_button_output(slot)
                => LastOutput(slot) = LastAccepted(Flat(uinput_log), slot)

\* a dispatch took the next ready descriptor: libevdev_next_event was called
\* on its device
DeviceRead == pc = "dispatch" /\ ready # <<>> /\ ready' = Tail(ready)

\* C37: at the head of the loop a device is online exactly when its
\* descriptor is open and its decoder attached, so an Offline device holds no
\* open descriptor; and no event is read from or processed for a device that
\* is Offline
C37_OnlineIffOpen ==
    /\ [](pc = "epoll_wait" =>
             \A i \in 1..Len(input_devices) :
                 /\ input_devices[i].online <=> (input_devices[i].fd /\ input_devices[i].dev)
                 /\ ~input_devices[i].online => ~input_devices[i].fd)
    /\ [][/\ DeviceRead => /\ input_devices[Head(ready)].online
                           /\ input_devices[Head(ready)].fd
                           /\ input_devices[Head(ready)].dev
          /\ resolver' # resolver => DeviceRead]_vars

\* a device that went Offline on its third failed read, at the loop head
C37_Witness ==
    /\ pc = "epoll_wait"
    /\ \E i \in 1..Len(input_devices) :
          /\ ~input_devices[i].online
          /\ ~input_devices[i].fd
          /\ input_devices[i].consecutive_read_failures = MaxReadFailures

\* a centered calibration with its deadzone inside the range, no inversion
CenteredWithDeadzone ==
    /\ CenteredByCalibration(cfg.cal)
    /\ DeadzoneInside(cfg.cal)
    /\ ~cfg.xform.invert

InObservedRange(raw) == cfg.cal.observed_min <= raw /\ raw <= cfg.cal.observed_max

\* of two raw values of the observed range processed one after the other,
\* the larger gives the larger or the same output
MonotoneStep ==
    (/\ Transformed /\ Transformed'
     /\ InObservedRange(TransformRaw) /\ InObservedRange(TransformRaw')
     /\ TransformRaw <= TransformRaw')
        => TransformOutput <= TransformOutput'

\* a raw value of the closed deadzone interval gives 0
ZeroOnDeadzone ==
    (/\ Transformed
     /\ cfg.cal.center_value - cfg.cal.deadzone_radius <= TransformRaw
     /\ TransformRaw <= cfg.cal.center_value + cfg.cal.deadzone_radius)
        => TransformOutput = 0

\* C38: on a centered calibrated axis without invert whose deadzone lies
\* inside the observed range, the output does not decrease as the raw value
\* goes from observed_min to observed_max, and it is 0 on the closed
\* deadzone interval, edges included
C38_MonotoneThroughDeadzone ==
    /\ [](CenteredWithDeadzone => ZeroOnDeadzone)
    /\ [][CenteredWithDeadzone => MonotoneStep]_vars

\* C39: a ready virtual device has its descriptor open; an initialize() in
\* which a call fails, and cleanup(), leave it not ready with the descriptor
\* closed; while it is not ready write_event and emit_sync return false and
\* nothing is written; initialize() on a ready device and cleanup() on a
\* cleaned one change nothing
C39_VirtualDeviceLifecycle ==
    /\ [](virtual_device.ready => virtual_device.uinput_fd)
    /\ [](\A failed \in InitializeSteps :
             ~virtual_device.ready =>
                 /\ ~initialize(virtual_device, failed).ready
                 /\ ~initialize(virtual_device, failed).uinput_fd)
    /\ [](/\ ~cleanup(virtual_device).ready
          /\ ~cleanup(virtual_device).uinput_fd
          /\ cleanup(cleanup(virtual_device)) = cleanup(virtual_device))
    /\ [](virtual_device.ready =>
             \A failed \in InitializeSteps \cup {"none"} :
                 initialize(virtual_device, failed) = virtual_device)
    /\ [](~virtual_device.ready =>
             /\ ~emit_sync
             /\ \A ev \in DeviceEvents : ~write_event(ev))
    /\ [][/\ (DeviceInitialize /\ syscalls'[2] = "false")
                 => ~virtual_device'.ready /\ ~virtual_device'.uinput_fd
          /\ DeviceCleanup => ~virtual_device'.ready /\ ~virtual_device'.uinput_fd
          /\ ((DeviceWriteEvent \/ DeviceEmitSync) /\ ~virtual_device.ready)
                 => uinput_log' = uinput_log /\ syscalls'[2] = "false"]_vars

\* a device that accepted an event was cleaned up and then refused a write
C39_Witness ==
    /\ syscalls = <<"write_event", "false">>
    /\ ~virtual_device.ready
    /\ ~virtual_device.uinput_fd
    /\ uinput_ok
    /\ uinput_log # <<>>

ProfileCall == SwitchProfile \/ CreateProfile \/ DeleteProfile \/ DuplicateProfile

\* C40: starting from a loaded configuration, after any sequence of
\* switch_profile, create_profile, delete_profile and duplicate_profile
\* there is at least one profile and active_profile names one; the profile
\* "default" is never deleted; and a call that returns false leaves the
\* configuration as it was
C40_ProfilesWellFormed ==
    /\ [](/\ config.profiles # EmptyMap
          /\ config.active_profile \in DOMAIN config.profiles)
    /\ [][/\ "default" \in DOMAIN config.profiles => "default" \in DOMAIN config.profiles'
          /\ (ProfileCall /\ syscalls'[2] = "false") => config' = config]_vars

====
